---------------------------- MODULE Spec2Model ----------------------------
(***************************************************************************)
(* A model of kati's ninja generator (src/src/ninja.cc): the Generate run  *)
(* and its stamp file, the traversal of the dependency graph               *)
(* (PopulateNinjaNodes), the translation of recipes to shell scripts       *)
(* (GenShellScript, TranslateCommand) and the emission of build stanzas    *)
(* (EmitNode, EmitBuild, GenerateNinja).                                   *)
(*                                                                         *)
(* The generator is checked in parts, one specification per part, over the *)
(* same variables; a part that a specification does not exercise keeps the *)
(* value its Init gives it.                                                *)
(*   SpecGen       Generate at the level of the files it touches           *)
(*   SpecPopulate  PopulateNinjaNodes / PopulateNinjaNode                  *)
(*   SpecShell     EmitNode: GenShellScript over concrete command texts    *)
(*   SpecEmit      GenerateNinja: EmitBuild and the default declaration    *)
(*   SpecDepfile   GetDepfile: the depfile detection on command texts      *)
(***************************************************************************)
EXTENDS Integers, Sequences, FiniteSets, TLC

VARIABLES
  pc,        \* position of the run in the code of the part being checked
  aborted,   \* the process has exited on a fatal error (CHECK, PERROR, ERROR)
  fs,        \* SpecGen: the files of the ninja directory, by name
  inp,       \* SpecGen: what the stamp is written from
  nwritten,  \* SpecGen: stamp fields written to the open FILE* so far
  g,         \* SpecPopulate: the dependency graph, the roots and the flags
  done_,     \* SpecPopulate: NinjaGenerator::done_
  nodes_,    \* NinjaGenerator::nodes_
  rule_id_,  \* SpecPopulate: NinjaGenerator::rule_id_
  stack,     \* SpecPopulate: the active PopulateNinjaNode calls
  ri,        \* SpecPopulate: next root of PopulateNinjaNodes' loop
  g_flags,   \* SpecShell, SpecEmit: g_flags and the generator's settings
  ninja_out, \* GenerateNinja's stream `out`: the lines written to build.ninja
  default_target_,  \* NinjaGenerator::default_target_: <<>> or <<output>>
  script,    \* what GenShellScript did in the last EmitNode: cmd_buf,
             \* the description, the value returned, a record per command
  ei,        \* GenerateNinja: next node of nodes_ to emit
  argv,      \* SpecDepfile: the words of the command text after the compiler
  detected,  \* SpecDepfile: what the depfile detection answered
  mu_,       \* SpecLock: NinjaGenerator::mu_, 0 or the call that holds it
  epc,       \* SpecLock: the position of each call of EmitBuild
  serial     \* SpecLock: the calls are made one after the other

genVars == <<fs, inp, nwritten>>

popVars == <<g, done_, nodes_, rule_id_, stack, ri>>

emVars == <<g_flags, ninja_out, default_target_, script, ei>>

depVars == <<argv, detected>>

lockVars == <<mu_, epc, serial>>

vars == <<pc, aborted, genVars, popVars, emVars, depVars, lockVars>>

\* what each part leaves alone
notGen == <<popVars, emVars, depVars, lockVars>>

notPop == <<genVars, emVars, depVars, lockVars>>

notEm == <<genVars, popVars, depVars, lockVars>>

notDep == <<genVars, popVars, emVars, lockVars>>

(***************************************************************************)
(* Bounds                                                                  *)
(***************************************************************************)
\* most entries of each list the stamp records (makefiles, undefined
\* variables, environment variables, globs, shell command results)
MaxItems == 1

\* most commands of a recipe
MaxCmds == 2

\* most nodes of a plan
MaxNodes == 2

\* most flags with a path (-MF, -o) of a command text
MaxFlags == 2

\* SpecLock: calls of EmitBuild that may run at the same time
MaxCalls == 3

\* most edges of a dependency graph
MaxEdges == 2

\* frames the machine's stack holds: a deeper recursion ends the process
MaxStack == 6

(***************************************************************************)
(* Generate and the stamp file                                             *)
(***************************************************************************)
GetNinjaStampFilename == ".kati_stamp"

GetStampTempFilenameDirect == ".kati_stamp"

GetStampTempFilename == ".kati_stamp.tmp"

GetNinjaFilename == "build.ninja"

GetEnvScriptFilename == "env.sh"

GetNinjaShellScriptFilename == "ninja.sh"

FileNames ==
  {GetNinjaStampFilename, ".kati_stamp.tmp", GetNinjaFilename,
   GetEnvScriptFilename, GetNinjaShellScriptFilename}

NoFile == [exists |-> FALSE, data |-> <<>>]

\* the stamp a previous, completed run left behind
PrevStamp == <<"prev">>

\* one shell command result as GenerateStamp dumps it
DumpCommandResult(op) ==
  <<"op", "shell", "shellflag", "cmd", "result", "filename", "lineno">>
  \o (IF op = "FIND"
        THEN <<"n_missing_dirs", "missing_dir", "n_found_files", "found_file",
               "n_read_dirs", "read_dir">>
        ELSE <<>>)

RECURSIVE DumpCommandResults(_)
DumpCommandResults(crs) ==
  IF crs = <<>> THEN <<>>
  ELSE DumpCommandResult(Head(crs)) \o DumpCommandResults(Tail(crs))

Repeat(n, item) == [i \in 1..n |-> item]

RECURSIVE Flatten(_)
Flatten(ss) == IF ss = <<>> THEN <<>> ELSE Head(ss) \o Flatten(Tail(ss))

\* the fields GenerateStamp writes, in the order it writes them
StampRecord(in) ==
  <<"start_time">>
  \o <<"n_makefiles", "kati_binary">> \o Repeat(in.makefiles, "makefile")
  \o <<"n_undefined">> \o Repeat(in.undefined, "undefined_var")
  \o <<"n_envs">> \o Flatten(Repeat(in.envs, <<"env_name", "env_value">>))
  \o <<"n_globs">>
  \o Flatten(Repeat(in.globs, <<"glob_pat", "n_files", "glob_file">>))
  \o <<"n_crs">> \o DumpCommandResults(in.crs)
  \o <<"orig_args">>

\* fopen(name, "wb"): the file exists and is empty
FOpenWb(f, name) == [f EXCEPT ![name] = [exists |-> TRUE, data |-> <<>>]]

\* fwrite / DumpInt / DumpString on the FILE* opened on `name`
FWrite(f, name, field) ==
  [f EXCEPT ![name] = [exists |-> TRUE, data |-> Append(f[name].data, field)]]

UnlinkNoop(f, name) == f

\* unlink(name)
Unlink(f, name) == [f EXCEPT ![name] = NoFile]

\* rename(from, to): `to` is replaced in one step, `from` is gone
Rename(f, from, to) ==
  IF ~f[from].exists THEN f
  ELSE IF from = to THEN f
  ELSE [f EXCEPT ![to] = f[from], ![from] = NoFile]

\* inp.prev: a previous run left its stamp; inp.stale: an aborted one left a
\* partly written temp file
StampInputs ==
  [prev : BOOLEAN, stale : BOOLEAN,
   makefiles : 0..MaxItems, undefined : 0..MaxItems, envs : 0..MaxItems,
   globs : 0..MaxItems,
   crs : UNION {[1..n -> {"SHELL", "FIND"}] : n \in 0..MaxItems}]

GenIdle == fs = <<>> /\ inp = <<>> /\ nwritten = 0

PopIdle ==
  /\ g = <<>> /\ done_ = {} /\ nodes_ = <<>> /\ rule_id_ = 0
  /\ stack = <<>> /\ ri = 1

DepIdle == argv = <<>> /\ detected = <<>>

LockIdle == mu_ = 0 /\ epc = <<>> /\ serial = TRUE

EmIdle ==
  /\ g_flags = <<>> /\ ninja_out = <<>> /\ default_target_ = <<>> /\ script = <<>>
  /\ ei = 1

InitGen ==
  /\ pc = "unlink"
  /\ aborted = FALSE
  /\ inp \in StampInputs
  /\ nwritten = 0
  /\ PopIdle
  /\ EmIdle
  /\ DepIdle
  /\ LockIdle
  /\ fs = [n \in FileNames |->
            IF n = ".kati_stamp" /\ inp.prev
              THEN [exists |-> TRUE, data |-> PrevStamp]
            ELSE IF n = ".kati_stamp.tmp" /\ inp.stale
              THEN [exists |-> TRUE, data |-> <<"start_time">>]
            ELSE NoFile]

\* Generate, line 204
GenerateUnlink ==
  /\ pc = "unlink" /\ ~aborted
  /\ fs' = Unlink(fs, GetNinjaStampFilename)
  /\ pc' = "populate"
  /\ UNCHANGED <<aborted, inp, nwritten, notGen>>

\* Generate, line 205: the traversal touches no file
GeneratePopulate ==
  /\ pc = "populate" /\ ~aborted
  /\ pc' = "ninja"
  /\ UNCHANGED <<aborted, fs, inp, nwritten, notGen>>

\* Generate, line 206: GenerateNinja writes build.ninja
GenerateNinjaFile ==
  /\ pc = "ninja" /\ ~aborted
  /\ fs' = FWrite(FOpenWb(fs, GetNinjaFilename), GetNinjaFilename, "plan")
  /\ pc' = "shell"
  /\ UNCHANGED <<aborted, inp, nwritten, notGen>>

\* Generate, line 207: GenerateShell writes env.sh and ninja.sh
GenerateShell ==
  /\ pc = "shell" /\ ~aborted
  /\ fs' = FWrite(FOpenWb(FWrite(FOpenWb(fs, GetEnvScriptFilename),
                                 GetEnvScriptFilename, "exports"),
                          GetNinjaShellScriptFilename),
                  GetNinjaShellScriptFilename, "exec ninja")
  /\ pc' = "stamp_open"
  /\ UNCHANGED <<aborted, inp, nwritten, notGen>>

\* GenerateStamp, lines 726-727
GenerateStampOpen ==
  /\ pc = "stamp_open" /\ ~aborted
  /\ fs' = FOpenWb(fs, GetStampTempFilename)
  /\ nwritten' = 0
  /\ pc' = "stamp_write"
  /\ UNCHANGED <<aborted, inp, notGen>>

\* GenerateStamp, lines 729-804: one field per step
GenerateStampWrite ==
  /\ pc = "stamp_write" /\ ~aborted
  /\ nwritten < Len(StampRecord(inp))
  /\ fs' = FWrite(fs, GetStampTempFilename, StampRecord(inp)[nwritten + 1])
  /\ nwritten' = nwritten + 1
  /\ UNCHANGED <<pc, aborted, inp, notGen>>

\* GenerateStamp, line 806
GenerateStampClose ==
  /\ pc = "stamp_write" /\ ~aborted
  /\ nwritten = Len(StampRecord(inp))
  /\ pc' = "rename"
  /\ UNCHANGED <<aborted, fs, inp, nwritten, notGen>>

\* GenerateStamp, line 808
GenerateStampRename ==
  /\ pc = "rename" /\ ~aborted
  /\ fs' = Rename(fs, GetStampTempFilename, GetNinjaStampFilename)
  /\ pc' = "done"
  /\ UNCHANGED <<aborted, inp, nwritten, notGen>>

\* the process exits where it stands (a failed CHECK or PERROR, a fatal
\* evaluation error, a kill): the files stay as they are
GenerateAbort ==
  /\ pc \in {"unlink", "populate", "ninja", "shell", "stamp_open",
             "stamp_write", "rename"}
  /\ ~aborted
  /\ aborted' = TRUE
  /\ UNCHANGED <<pc, fs, inp, nwritten, notGen>>

NextGen ==
  \/ GenerateUnlink
  \/ GeneratePopulate
  \/ GenerateNinjaFile
  \/ GenerateShell
  \/ GenerateStampOpen
  \/ GenerateStampWrite
  \/ GenerateStampClose
  \/ GenerateStampRename
  \/ GenerateAbort

SpecGen == InitGen /\ [][NextGen]_vars

(***************************************************************************)
(* PopulateNinjaNodes: the traversal of the dependency graph               *)
(***************************************************************************)
\* the DepNodes, by output name, in a fixed order
NodeOrder == <<"a", "b", "out">>

Nodes == {NodeOrder[i] : i \in 1..Len(NodeOrder)}

EdgeKinds == {"deps", "order_onlys", "validations"}

\* the edges a graph is drawn from: every kind of edge down the order of the
\* nodes, and edges back up it (and one from a node to itself) for the cycles
AllEdges ==
  {e \in Nodes \X EdgeKinds \X Nodes :
     <<e[1], e[3]>> \in {<<"a", "b">>, <<"a", "out">>, <<"b", "out">>}}
  \cup {<<"b", "deps", "a">>, <<"b", "validations", "a">>,
        <<"out", "order_onlys", "a">>, <<"a", "deps", "a">>}

RECURSIVE EdgeSets(_)
EdgeSets(k) ==
  IF k = 0 THEN {{}}
  ELSE LET P == EdgeSets(k - 1) IN P \cup {p \cup {e} : p \in P, e \in AllEdges}

\* what a DepNode is to the traversal: a leaf (no rule, not phony), a node
\* with a rule whose evaluated command list is not empty, a phony node
\* without commands
NodeKinds ==
  {[has_rule |-> FALSE, is_phony |-> FALSE, ncmds |-> 0],
   [has_rule |-> TRUE, is_phony |-> FALSE, ncmds |-> 1],
   [has_rule |-> FALSE, is_phony |-> TRUE, ncmds |-> 0]}

\* node->deps, node->order_onlys or node->validations, as output names
EdgeList(gr, n, kind) ==
  SelectSeq(NodeOrder, LAMBDA m : <<n, kind, m>> \in gr.edges)

\* the order in which PopulateNinjaNode walks a node's edges, lines 254-262
Children(gr, n) ==
  EdgeList(gr, n, "deps") \o EdgeList(gr, n, "order_onlys")
  \o EdgeList(gr, n, "validations")

DoneExistsNever(done, output) == FALSE

\* done_.exists(node->output), line 231
DoneExists(done, output) == output \in done

IsLeafNodeOnlyWithoutEdges(gr, n) ==
  ~gr.kind[n].has_rule /\ ~gr.kind[n].is_phony /\ Children(gr, n) = <<>>

\* lines 243-246
IsLeafNode(gr, n) == ~gr.kind[n].has_rule /\ ~gr.kind[n].is_phony

\* the Android hack of lines 238-241
IsAndroidOut(gr, n) == gr.detect_android_echo /\ n = "out"

\* every emission node takes the next rule id
PopulateNinjaNodeCountsAll(gr, done, nodes, rule_id, n) ==
  IF DoneExists(done, n)
    THEN [done |-> done, nodes |-> nodes, rule_id |-> rule_id, descend |-> FALSE]
  ELSE IF IsAndroidOut(gr, n) \/ IsLeafNode(gr, n)
    THEN [done |-> done \cup {n}, nodes |-> nodes, rule_id |-> rule_id,
          descend |-> FALSE]
  ELSE [done |-> done \cup {n},
        nodes |-> Append(nodes,
                    [node |-> n, ncmds |-> gr.kind[n].ncmds,
                     rule_id |-> IF gr.kind[n].ncmds = 0 THEN -1 ELSE rule_id]),
        rule_id |-> rule_id + 1,
        descend |-> TRUE]

\* PopulateNinjaNode up to its loops (lines 231-252): the new done_, nodes_
\* and rule_id_, and whether the call goes on to walk the node's edges
PopulateNinjaNode(gr, done, nodes, rule_id, n) ==
  IF DoneExists(done, n)
    THEN [done |-> done, nodes |-> nodes, rule_id |-> rule_id, descend |-> FALSE]
  ELSE IF IsAndroidOut(gr, n) \/ IsLeafNode(gr, n)
    THEN [done |-> done \cup {n}, nodes |-> nodes, rule_id |-> rule_id,
          descend |-> FALSE]
  ELSE [done |-> done \cup {n},
        nodes |-> Append(nodes,
                    [node |-> n, ncmds |-> gr.kind[n].ncmds,
                     rule_id |-> IF gr.kind[n].ncmds = 0 THEN -1 ELSE rule_id]),
        rule_id |-> IF gr.kind[n].ncmds = 0 THEN rule_id ELSE rule_id + 1,
        descend |-> TRUE]

Graphs ==
  [edges : EdgeSets(MaxEdges), kind : [Nodes -> NodeKinds],
   roots : {<<"a">>, <<"a", "b">>}, detect_android_echo : BOOLEAN]

InitPopulate ==
  /\ pc = "populate"
  /\ aborted = FALSE
  /\ GenIdle
  /\ EmIdle
  /\ DepIdle
  /\ LockIdle
  /\ g \in Graphs
  /\ done_ = {} /\ nodes_ = <<>> /\ rule_id_ = 0
  /\ stack = <<>> /\ ri = 1

\* a call of PopulateNinjaNode(n) made with `rest` as the callers' frames
Call(n, rest) ==
  LET r == PopulateNinjaNode(g, done_, nodes_, rule_id_, n)
  IN /\ done_' = r.done
     /\ nodes_' = r.nodes
     /\ rule_id_' = r.rule_id
     /\ IF ~r.descend THEN stack' = rest /\ aborted' = aborted
        ELSE IF Len(rest) >= MaxStack THEN stack' = rest /\ aborted' = TRUE
        ELSE stack' = <<[node |-> n, idx |-> 1]>> \o rest /\ aborted' = aborted

\* PopulateNinjaNodes, lines 225-227: the call on the next root
PopulateRoot ==
  /\ pc = "populate" /\ ~aborted
  /\ stack = <<>> /\ ri <= Len(g.roots)
  /\ Call(g.roots[ri], <<>>)
  /\ ri' = ri + 1
  /\ UNCHANGED <<pc, g, notPop>>

\* PopulateNinjaNode, lines 254-262: the recursive call on the next edge
PopulateChild ==
  /\ pc = "populate" /\ ~aborted
  /\ stack # <<>>
  /\ LET top == Head(stack) IN
       /\ top.idx <= Len(Children(g, top.node))
       /\ Call(Children(g, top.node)[top.idx],
               <<[top EXCEPT !.idx = @ + 1]>> \o Tail(stack))
  /\ UNCHANGED <<pc, g, ri, notPop>>

\* PopulateNinjaNode, line 263: the call returns
PopulateReturn ==
  /\ pc = "populate" /\ ~aborted
  /\ stack # <<>>
  /\ Head(stack).idx > Len(Children(g, Head(stack).node))
  /\ stack' = Tail(stack)
  /\ UNCHANGED <<pc, aborted, g, done_, nodes_, rule_id_, ri, notPop>>

\* PopulateNinjaNodes, line 228
PopulateDone ==
  /\ pc = "populate" /\ ~aborted
  /\ stack = <<>> /\ ri > Len(g.roots)
  /\ pc' = "done"
  /\ UNCHANGED <<aborted, popVars, notPop>>

NextPopulate ==
  \/ PopulateRoot
  \/ PopulateChild
  \/ PopulateReturn
  \/ PopulateDone

SpecPopulate == InitPopulate /\ [][NextPopulate]_vars /\ WF_vars(NextPopulate)

(***************************************************************************)
(* Strings: sequences of one-character strings; positions count from 0 as  *)
(* in the code, and NPOS is string::npos                                   *)
(***************************************************************************)
NPOS == -1

IsSpace(c) == c \in {" ", "\t", "\n", "\r", "\f"}

HasPrefix(s, p) == Len(s) >= Len(p) /\ SubSeq(s, 1, Len(p)) = p

HasSuffix(s, p) ==
  Len(s) >= Len(p) /\ SubSeq(s, Len(s) - Len(p) + 1, Len(s)) = p

\* s.substr(pos)
SubstrFrom(s, pos) == SubSeq(s, pos + 1, Len(s))

\* s.substr(pos, n)
Substr(s, pos, n) ==
  SubSeq(s, pos + 1, IF pos + n > Len(s) THEN Len(s) ELSE pos + n)

\* s.find(p)
Find(s, p) ==
  LET at == {i \in 0..(Len(s) - Len(p)) : SubSeq(s, i + 1, i + Len(p)) = p}
  IN IF at = {} THEN NPOS ELSE CHOOSE i \in at : \A j \in at : i <= j

\* s.rfind(c) for one character
RFindChar(s, c) ==
  LET at == {i \in 0..(Len(s) - 1) : s[i + 1] = c}
  IN IF at = {} THEN NPOS ELSE CHOOSE i \in at : \A j \in at : i >= j

\* s.find_first_of(cs)
FindFirstOf(s, cs) ==
  LET at == {i \in 0..(Len(s) - 1) : s[i + 1] \in cs}
  IN IF at = {} THEN NPOS ELSE CHOOSE i \in at : \A j \in at : i <= j

\* s.resize(n) for n <= s.size()
Resize(s, n) == SubSeq(s, 1, n)

\* s.insert(pos, t)
Insert(s, pos, t) == SubSeq(s, 1, pos) \o t \o SubSeq(s, pos + 1, Len(s))

RECURSIVE TrimLeftSpace(_)
TrimLeftSpace(s) ==
  IF s # <<>> /\ IsSpace(Head(s)) THEN TrimLeftSpace(Tail(s)) ELSE s

\* Dirname of strutil: the part before the last slash, "." without a slash
Dirname(s) ==
  LET found == RFindChar(s, "/")
  IN IF found = NPOS THEN <<".">>
     ELSE IF found = 0 THEN <<>>
     ELSE Substr(s, 0, found)

(***************************************************************************)
(* TranslateCommand                                                        *)
(***************************************************************************)
\* the backquote character, which a string of this notation cannot hold
BackQuote == "backquote"

QuoteChars == {"'", "\"", BackQuote}

\* lines 280-281: from the `#` at in[i], the place the skipping loop stops
RECURSIVE SkipComment(_, _)
SkipComment(in, i) ==
  IF i + 1 <= Len(in) /\ in[i] # "\n" THEN SkipComment(in, i + 1) ELSE i

\* lines 276-326: the scan from in[st.i] on. st.buf is cmd_buf, st.pb is
\* prev_backslash, st.pch is prev_char, st.q is quote ("" for 0); st.crashed
\* is set by a resize below zero (std::length_error)
RECURSIVE TranslateScan(_, _)
TranslateScan(in, st) ==
  IF st.crashed \/ st.i > Len(in) THEN st
  ELSE
    LET c == in[st.i] IN
    IF c = "#" /\ st.q = "" /\ IsSpace(st.pch)
      THEN LET j == SkipComment(in, st.i) IN
           TranslateScan(in, [st EXCEPT !.i = j + 1,
                                        !.pb = IF in[j] = "\\" THEN ~st.pb
                                               ELSE FALSE,
                                        !.pch = in[j]])
    ELSE
      LET under == c = "\n" /\ st.pb /\ st.buf = <<>>
          buf2 == IF c = "$" THEN st.buf \o <<"$", "$">>
                  ELSE IF c = "\n"
                    THEN IF st.pb THEN Resize(st.buf, Len(st.buf) - 1)
                         ELSE Append(st.buf, " ")
                  ELSE Append(st.buf, c)
          q2 == IF c \in QuoteChars
                  THEN IF st.q # "" THEN (IF st.q = c THEN "" ELSE st.q)
                       ELSE IF ~st.pb THEN c ELSE st.q
                ELSE st.q
      IN TranslateScan(in, [i |-> st.i + 1,
                            buf |-> IF under THEN st.buf ELSE buf2,
                            pb |-> IF c = "\\" THEN ~st.pb ELSE FALSE,
                            pch |-> c, q |-> q2, crashed |-> under])

\* lines 332-337: the loop that strips trailing whitespace and semicolons.
\* At size 0 it reads (*cmd_buf)[size_t(-1)], outside the buffer: `oob` is
\* what that read finds, a byte that ends the loop ("other") or one that the
\* loop takes for a space ("space": the resize to size_t(-1) then throws)
RECURSIVE StripTrailing(_, _)
StripTrailing(buf, oob) ==
  IF buf = <<>>
    THEN [buf |-> buf, oob_read |-> TRUE, crashed |-> oob = "space"]
  ELSE IF ~IsSpace(buf[Len(buf)]) /\ buf[Len(buf)] # ";"
    THEN [buf |-> buf, oob_read |-> FALSE, crashed |-> FALSE]
  ELSE StripTrailing(Resize(buf, Len(buf) - 1), oob)

OobOutcomes == {"other", "space"}

\* lines 266-269: a buffer that starts with "make " starts with "ninja "
MakeToNinja(cmd_buf) ==
  IF HasPrefix(cmd_buf, <<"m", "a", "k", "e", " ">>)
    THEN <<"n", "i", "n", "j", "a", " ">> \o SubstrFrom(cmd_buf, 5)
  ELSE cmd_buf

\* lines 332-340, on the buffer st that the strip loop left
TranslateReturn(orig_size, st) ==
  IF Len(st.buf) < orig_size
    THEN [buf |-> st.buf, orig_size |-> orig_size, piece |-> <<>>,
          oob_read |-> st.oob_read, under |-> TRUE, crashed |-> TRUE]
  ELSE [buf |-> st.buf, orig_size |-> orig_size,
        piece |-> SubstrFrom(st.buf, orig_size),
        oob_read |-> st.oob_read, under |-> FALSE, crashed |-> st.crashed]

\* lines 328-337, on the state sc that the scan left
TranslateStrip(orig_size, sc, oob) ==
  IF sc.crashed \/ (sc.pb /\ sc.buf = <<>>)
    THEN [buf |-> sc.buf, orig_size |-> orig_size, piece |-> <<>>,
          oob_read |-> FALSE, under |-> FALSE, crashed |-> TRUE]
  ELSE TranslateReturn(orig_size,
         StripTrailing(IF sc.pb THEN Resize(sc.buf, Len(sc.buf) - 1)
                       ELSE sc.buf, oob))

\* lines 265-341. The result: the buffer, orig_size, the returned piece, and
\* what went wrong: oob_read (the strip loop read before the buffer), under
\* (the buffer ended shorter than orig_size: the piece has no valid length),
\* crashed (the call did not return)
TranslateCommand(in, cmd_buf, oob) ==
  TranslateStrip(Len(MakeToNinja(cmd_buf)),
                 TranslateScan(in, [i |-> 1, buf |-> MakeToNinja(cmd_buf),
                                    pb |-> FALSE, pch |-> " ", q |-> "",
                                    crashed |-> FALSE]),
                 oob)

(***************************************************************************)
(* The heuristics of GenShellScript                                        *)
(***************************************************************************)
\* IsOutputMkdir without lines 348-350, which take a trailing slash off
IsOutputMkdirKeepsSlash(name, cmd) ==
  /\ HasPrefix(cmd, <<"m", "k", "d", "i", "r", " ", "-", "p", " ">>)
  /\ SubstrFrom(cmd, 9) = Dirname(name)

\* lines 343-357
IsOutputMkdir(name, cmd) ==
  /\ HasPrefix(cmd, <<"m", "k", "d", "i", "r", " ", "-", "p", " ">>)
  /\ LET c1 == SubstrFrom(cmd, 9)
         c2 == IF c1 # <<>> /\ c1[Len(c1)] = "/" THEN Resize(c1, Len(c1) - 1)
               ELSE c1
     IN c2 = Dirname(name)

\* lines 370-402: the scan of the text after "echo "
RECURSIVE DescriptionScan(_, _, _, _, _)
DescriptionScan(cmd, i, prev_backslash, quote, out_buf) ==
  IF i > Len(cmd) THEN [ok |-> TRUE, out |-> out_buf]
  ELSE
    LET c == cmd[i] IN
    IF prev_backslash
      THEN DescriptionScan(cmd, i + 1, FALSE, quote, Append(out_buf, c))
    ELSE IF c = "\\"
      THEN DescriptionScan(cmd, i + 1, TRUE, quote, Append(out_buf, c))
    ELSE IF quote # ""
      THEN IF c = quote THEN DescriptionScan(cmd, i + 1, FALSE, "", out_buf)
           ELSE DescriptionScan(cmd, i + 1, FALSE, quote, Append(out_buf, c))
    ELSE IF c \in QuoteChars
      THEN DescriptionScan(cmd, i + 1, FALSE, c, out_buf)
    ELSE IF c \in {"<", ">", "&", "|", ";"}
      THEN [ok |-> FALSE, out |-> <<>>]
    ELSE DescriptionScan(cmd, i + 1, FALSE, quote, Append(out_buf, c))

\* lines 359-406
GetDescriptionFromCommand(cmd) ==
  IF ~HasPrefix(cmd, <<"e", "c", "h", "o", " ">>) THEN [ok |-> FALSE, out |-> <<>>]
  ELSE DescriptionScan(SubstrFrom(cmd, 5), 1, FALSE, "", <<>>)

\* lines 81-102
RECURSIVE GetGomaccPosForAndroidCompileCommand(_)
GetGomaccPosForAndroidCompileCommand(cmdline) ==
  LET index == Find(cmdline, <<" ">>) IN
  IF index = NPOS THEN NPOS
  ELSE
    LET cmd == Substr(cmdline, 0, index) IN
    IF HasSuffix(cmd, <<"c", "c", "a", "c", "h", "e">>)
      THEN LET pos == GetGomaccPosForAndroidCompileCommand(
                         SubstrFrom(cmdline, index + 1))
           IN IF pos = NPOS THEN NPOS ELSE pos + index + 1
    ELSE IF ~HasPrefix(cmd, <<"p", "r", "e", "b", "u", "i", "l", "t", "s", "/">>) THEN NPOS
    ELSE
      LET c1 == SubstrFrom(cmd, 10)
          c2 == IF HasPrefix(c1, <<"g", "c", "c", "/">>) THEN SubstrFrom(c1, 4)
                ELSE IF HasPrefix(c1, <<"c", "l", "a", "n", "g", "/">>)
                  THEN SubstrFrom(c1, 6)
                ELSE c1
      IN IF c2 = c1 THEN NPOS
         ELSE IF ~HasSuffix(c2, <<"g", "c", "c">>) /\ ~HasSuffix(c2, <<"g", "+", "+">>)
                 /\ ~HasSuffix(c2, <<"c", "l", "a", "n", "g">>)
                 /\ ~HasSuffix(c2, <<"c", "l", "a", "n", "g", "+", "+">>)
           THEN NPOS
         ELSE IF Find(SubstrFrom(cmdline, index), <<" ", "-", "c", " ">>) # NPOS
           THEN 0
         ELSE NPOS

\* a sub-shell only for an ignored exit status
NeedsSubshellByIgnoreError(command_count, c) == c.ignore_error

\* line 426
NeedsSubshell(command_count, c) == command_count > 1 \/ c.ignore_error

\* lines 433-434: the command's text becomes the rule's description
TakesDescription(fl, got_description, c, translated) ==
  /\ fl.detect_android_echo /\ ~got_description /\ ~c.echo
  /\ GetDescriptionFromCommand(translated).ok

\* the mkdir heuristic without its cmd_begin == 0
DropsOutputMkdirAnywhere(name, c, translated, cmd_begin) ==
  IsOutputMkdir(name, translated) /\ ~c.echo

\* lines 437-438: the command is dropped as a mkdir of the output's directory
DropsOutputMkdir(name, c, translated, cmd_begin) ==
  IsOutputMkdir(name, translated) /\ ~c.echo /\ cmd_begin = 0

\* line 192
Gomacc(fl) == fl.goma_dir[1] \o <<"/", "g", "o", "m", "a", "c", "c", " ">>

\* the local pool also for a recipe that uses gomacc
UseLocalPoolWithGomacc(fl, use_gomacc) ==
  fl.use_goma_ \/ fl.remote_num_jobs > 0 \/ fl.goma_dir # <<>> \/ use_gomacc

\* lines 462-463
UseLocalPool(fl, use_gomacc) ==
  (fl.use_goma_ \/ fl.remote_num_jobs > 0 \/ fl.goma_dir # <<>>) /\ ~use_gomacc

\* lines 417-429: cmd_buf as TranslateCommand receives it
CommandPrefix(st, c) ==
  (IF st.cmd_buf # <<>> THEN st.cmd_buf \o <<" ", "&", "&", " ">> ELSE st.cmd_buf)
  \o (IF NeedsSubshell(st.command_count, c) THEN <<"(">> ELSE <<>>)

\* what a turn records about its command
Iteration(st, c, tr, described, mkdir) ==
  [cmd_begin |-> Len(st.cmd_buf),
   needs_subshell |-> NeedsSubshell(st.command_count, c),
   piece |-> tr.piece, described |-> described, mkdir |-> mkdir,
   dropped |-> described \/ mkdir \/ tr.piece = <<>>,
   oob_read |-> tr.oob_read, under |-> tr.under,
   command_count |-> st.command_count]

\* lines 441-444: the command left nothing to run
DropCommand(st, tr, described, it) ==
  [st EXCEPT !.cmd_buf = Resize(tr.buf, Len(st.cmd_buf)),
             !.command_count = @ - 1,
             !.got_description = @ \/ described,
             !.description = IF described
                               THEN GetDescriptionFromCommand(tr.piece).out
                             ELSE @,
             !.iters = Append(@, it)]

\* lines 446-459: the command stays; pos is where gomacc goes, or NPOS
KeepCommand(st, c, fl, cmd_start, tr, pos, it) ==
  [st EXCEPT !.cmd_buf =
               (IF pos # NPOS THEN Insert(tr.buf, cmd_start + pos, Gomacc(fl))
                ELSE tr.buf)
               \o (IF c.ignore_error THEN <<" ", ";", " ", "t", "r", "u", "e">> ELSE <<>>)
               \o (IF NeedsSubshell(st.command_count, c) THEN <<" ", ")">>
                   ELSE <<>>),
             !.use_gomacc =
               @ \/ (IF fl.goma_dir # <<>> THEN pos # NPOS
                     ELSE Find(tr.piece, <<"/", "g", "o", "m", "a", "c", "c">>) # NPOS),
             !.iters = Append(@, it)]

\* lines 433-459, once the two heuristics have answered: described (the
\* command's text became the description), mkdir (it was dropped as the
\* mkdir of the output's directory)
TurnDecided(st, c, fl, cmd_start, tr, described, mkdir) ==
  IF tr.crashed
    THEN [st EXCEPT !.crashed = TRUE,
                    !.iters = Append(@, Iteration(st, c, tr, FALSE, FALSE))]
  ELSE IF described \/ mkdir \/ tr.piece = <<>>
    THEN DropCommand(st, tr, described, Iteration(st, c, tr, described, mkdir))
  ELSE KeepCommand(st, c, fl, cmd_start, tr,
                   IF fl.goma_dir # <<>>
                     THEN GetGomaccPosForAndroidCompileCommand(tr.piece)
                   ELSE NPOS,
                   Iteration(st, c, tr, described, mkdir))

\* lines 431-439, on the result tr of TranslateCommand
TurnTranslated(name, st, c, fl, cmd_start, tr) ==
  TurnDecided(st, c, fl, cmd_start, tr,
    ~tr.crashed /\ TakesDescription(fl, st.got_description, c, tr.piece),
    /\ ~tr.crashed
    /\ ~TakesDescription(fl, st.got_description, c, tr.piece)
    /\ DropsOutputMkdir(name, c, tr.piece, Len(st.cmd_buf)))

\* lines 416-460: one turn of GenShellScript's loop, on command c. st holds
\* cmd_buf, description, got_descritpion, use_gomacc and command_count; iters
\* records, per command, what the turn did
GenShellScriptTurn(name, c, st, fl, oob) ==
  TurnTranslated(name, st, c, fl, Len(CommandPrefix(st, c)),
                 TranslateCommand(TrimLeftSpace(c.cmd), CommandPrefix(st, c),
                                  oob))

RECURSIVE GenShellScriptLoop(_, _, _, _, _, _)
GenShellScriptLoop(name, commands, k, st, fl, oob) ==
  IF k > Len(commands) \/ st.crashed THEN st
  ELSE GenShellScriptLoop(name, commands, k + 1,
                          GenShellScriptTurn(name, commands[k], st, fl, oob),
                          fl, oob)

\* lines 462-463: what GenShellScript leaves and returns
ShellResult(fl, st) ==
  [cmd_buf |-> st.cmd_buf, description |-> st.description,
   use_local_pool |-> UseLocalPool(fl, st.use_gomacc),
   iters |-> st.iters, crashed |-> st.crashed]

\* lines 408-464, called as EmitNode calls it: on an empty cmd_buf and the
\* description "build $out". use_local_pool is the value returned
GenShellScript(name, commands, fl, oob) ==
  ShellResult(fl,
    GenShellScriptLoop(name, commands, 1,
      [cmd_buf |-> <<>>, description |-> <<"b", "u", "i", "l", "d", " ", "$", "o", "u", "t">>,
       got_description |-> FALSE, use_gomacc |-> FALSE,
       command_count |-> Len(commands), iters |-> <<>>,
       crashed |-> FALSE], fl, oob))

(***************************************************************************)
(* Depfile detection                                                       *)
(***************************************************************************)
\* StripExt of strutil: the name without its last extension
StripExt(s) ==
  LET slash_index == RFindChar(s, "/")
      found == RFindChar(s, ".")
  IN IF found = NPOS \/ (slash_index # NPOS /\ found < slash_index) THEN s
     ELSE Substr(s, 0, found)

\* Basename of strutil: the part after the last slash
Basename(s) ==
  LET found == RFindChar(s, "/")
  IN IF found = NPOS \/ found = 0 THEN s ELSE SubstrFrom(s, found + 1)

\* lines 50-55
FindCommandLineFlag(cmd, name) ==
  LET found == Find(cmd, name)
  IN IF found = NPOS \/ found = 0 THEN NPOS ELSE found

\* lines 64-68: the value after the last occurrence of the flag
RECURSIVE LastFlagValue(_, _)
LastFlagValue(val, name) ==
  LET index == Find(val, name)
  IN IF index = NPOS THEN val
     ELSE LastFlagValue(TrimLeftSpace(SubstrFrom(val, index + Len(name))), name)

\* lines 69-71: the text up to the first blank
FirstWord(val) ==
  IF FindFirstOf(val, {" ", "\t"}) = NPOS THEN val
  ELSE Substr(val, 0, FindFirstOf(val, {" ", "\t"}))

\* lines 59-71, on the index that FindCommandLineFlag returned
FlagArgAt(cmd, name, index) ==
  IF index = NPOS THEN <<>>
  ELSE FirstWord(LastFlagValue(
                   TrimLeftSpace(SubstrFrom(cmd, index + Len(name))), name))

\* lines 57-72
FindCommandLineFlagWithArg(cmd, name) ==
  FlagArgAt(cmd, name, FindCommandLineFlag(cmd, name))

\* the depfile taken from -o before -MF is looked at
DepfileOfFlagsPrefersO(mf, o) ==
  IF o # <<>>
    THEN [ok |-> TRUE, out |-> StripExt(o) \o <<".", "d">>, error |-> FALSE]
  ELSE IF mf = <<>> THEN [ok |-> FALSE, out |-> <<>>, error |-> TRUE]
  ELSE [ok |-> TRUE, out |-> mf, error |-> FALSE]

\* lines 113-125, on the values of -MF and -o
DepfileOfFlags(mf, o) ==
  IF mf # <<>> THEN [ok |-> TRUE, out |-> mf, error |-> FALSE]
  ELSE IF o = <<>> THEN [ok |-> FALSE, out |-> <<>>, error |-> TRUE]
  ELSE [ok |-> TRUE, out |-> StripExt(o) \o <<".", "d">>, error |-> FALSE]

\* lines 104-126. error: ERROR was called (a diagnostic; the call returns)
GetDepfileFromCommandImpl(cmd) ==
  IF (FindCommandLineFlag(cmd, <<" ", "-", "M", "D">>) = NPOS
      /\ FindCommandLineFlag(cmd, <<" ", "-", "M", "M", "D">>) = NPOS)
     \/ FindCommandLineFlag(cmd, <<" ", "-", "c">>) = NPOS
    THEN [ok |-> FALSE, out |-> <<>>, error |-> FALSE]
  ELSE DepfileOfFlags(FindCommandLineFlagWithArg(cmd, <<" ", "-", "M", "F">>),
                      FindCommandLineFlagWithArg(cmd, <<" ", "-", "o">>))

\* s.erase(pos, n)
Erase(s, pos, n) == SubSeq(s, 1, pos) \o SubSeq(s, pos + n + 1, Len(s))

\* lines 146-152: the removal of "; rm -f <depfile>", found at `found`
RemoveRmDepfile(cmd, r, found) ==
  IF found = NPOS
    THEN [ok |-> FALSE, cmd |-> cmd, out |-> r.out, error |-> TRUE,
          crashed |-> TRUE]
  ELSE [ok |-> TRUE, cmd |-> Erase(cmd, found, Len(r.out) + 8),
        out |-> r.out, error |-> FALSE, crashed |-> FALSE]

\* lines 132-169, on the answer r of GetDepfileFromCommandImpl.
\* crashed: cmd->erase(npos, ...) threw
DepfileHacks(cmd, r) ==
  IF ~r.ok \/ Find(cmd, <<"b", "i", "n", "/", "l", "l", "v", "m", "-", "r", "s", "-", "c", "c", " ">>) # NPOS
    THEN [ok |-> FALSE, cmd |-> cmd, out |-> r.out, error |-> r.error,
          crashed |-> FALSE]
  ELSE IF Find(cmd, StripExt(r.out) \o <<".", "P">>) # NPOS
    THEN RemoveRmDepfile(cmd, r, Find(cmd, <<";", " ", "r", "m", " ", "-", "f", " ">> \o r.out))
  ELSE IF Find(cmd, <<"/">> \o StripExt(Basename(r.out)) \o <<".", "s">>) # NPOS
    THEN [ok |-> FALSE, cmd |-> cmd, out |-> r.out, error |-> r.error,
          crashed |-> FALSE]
  ELSE [ok |-> TRUE,
        cmd |-> cmd \o <<"&", "&", " ", "c", "p", " ">> \o r.out \o <<" ">> \o r.out
                \o <<".", "t", "m", "p", " ">>,
        out |-> r.out \o <<".", "t", "m", "p">>,
        error |-> FALSE, crashed |-> FALSE]

\* lines 128-170
GetDepfileFromCommand(cmd) == DepfileHacks(cmd, GetDepfileFromCommandImpl(cmd))

\* lines 475-476: the space appended for the detection is taken off again
WithoutLastChar(r) == [r EXCEPT !.cmd = Resize(@, Len(@) - 1)]

\* lines 466-478. node.depfile_var is <<>> (no variable) or <<its value>>
GetDepfile(node, cmd_buf, fl) ==
  IF node.depfile_var # <<>>
    THEN [ok |-> TRUE, cmd |-> cmd_buf, out |-> node.depfile_var[1],
          error |-> FALSE, crashed |-> FALSE]
  ELSE IF ~fl.detect_depfiles
    THEN [ok |-> FALSE, cmd |-> cmd_buf, out |-> <<>>, error |-> FALSE,
          crashed |-> FALSE]
  ELSE WithoutLastChar(GetDepfileFromCommand(Append(cmd_buf, " ")))

(***************************************************************************)
(* EmitNode, EmitBuild and GenerateNinja                                   *)
(*                                                                         *)
(* A DepNode is a record: output, is_phony, is_restat, is_default_target,  *)
(* implicit_outputs, deps, order_onlys, validations, symlink_outputs       *)
(* (lists of names), depfile_var and ninja_pool_var (<<>> for a null       *)
(* pointer, <<v>> for a variable that evaluates to v). A NinjaNode is      *)
(* [node, commands, rule_id]; a Command is [cmd, echo, ignore_error].      *)
(* The plan is a sequence of lines, each a record with its kind in t.      *)
(***************************************************************************)
\* line 515
RspFileThreshold == 100000

\* lines 532-548
RECURSIVE EscapeNinjaChars(_)
EscapeNinjaChars(s) ==
  IF s = <<>> THEN <<>>
  ELSE (IF Head(s) \in {"$", ":", " "} THEN <<"$", Head(s)>> ELSE <<Head(s)>>)
       \o EscapeNinjaChars(Tail(s))

\* only a name with a colon is rewritten
EscapeNinjaOnlyWithColon(s) ==
  IF FindFirstOf(s, {":"}) = NPOS THEN s ELSE EscapeNinjaChars(s)

EscapeNinja(s) ==
  IF FindFirstOf(s, {"$", ":", " "}) = NPOS THEN s ELSE EscapeNinjaChars(s)

\* line 550
EscapeBuildTarget(s) == EscapeNinja(s)

EscapeBuildTargets(names) == [i \in 1..Len(names) |-> EscapeBuildTarget(names[i])]

ShellDelimiters == {"\"", "$", "\\", BackQuote}

\* EscapeShell of strutil: the text up to the next of " $ \ ` is copied, the
\* character gets a backslash before it, and a doubled dollar gets one
\* backslash for the pair
RECURSIVE EscapeShell(_)
EscapeShell(s) ==
  IF FindFirstOf(s, ShellDelimiters) = NPOS THEN s
  ELSE IF HasPrefix(SubstrFrom(s, FindFirstOf(s, ShellDelimiters)), <<"$", "$">>)
    THEN Substr(s, 0, FindFirstOf(s, ShellDelimiters)) \o <<"\\", "$", "$">>
         \o EscapeShell(SubstrFrom(s, FindFirstOf(s, ShellDelimiters) + 2))
  ELSE Substr(s, 0, FindFirstOf(s, ShellDelimiters))
       \o <<"\\", s[FindFirstOf(s, ShellDelimiters) + 1]>>
       \o EscapeShell(SubstrFrom(s, FindFirstOf(s, ShellDelimiters) + 1))

\* IsSpecialTarget of dep: a name like .PHONY or .SUFFIXES
IsSpecialTarget(output) ==
  Len(output) >= 2 /\ output[1] = "." /\ output[2] # "."

PhonyRule == <<"phony">>

\* line 503: "rule%d"
RuleName(rule_id) == <<"rule", rule_id>>

PoolNone == <<"n", "o", "n", "e">>

\* the pool lines when "none" is no pool name of its own and the later
\* tiers apply
PoolLinesNoneFallsThrough(pool, rule_name, use_local_pool, fl) ==
  IF pool # <<>> /\ pool # PoolNone THEN <<[t |-> "pool", v |-> pool]>>
  ELSE IF fl.default_pool # <<>> /\ rule_name # PhonyRule
    THEN <<[t |-> "pool", v |-> fl.default_pool[1]]>>
  ELSE IF use_local_pool
    THEN <<[t |-> "pool", v |-> <<"l", "o", "c", "a", "l", "_", "p", "o", "o", "l">>]>>
  ELSE <<>>

\* lines 596-609: the pool line of a build stanza, if any
PoolLines(pool, rule_name, use_local_pool, fl) ==
  IF pool # <<>>
    THEN IF pool # PoolNone THEN <<[t |-> "pool", v |-> pool]>> ELSE <<>>
  ELSE IF fl.default_pool # <<>> /\ rule_name # PhonyRule
    THEN <<[t |-> "pool", v |-> fl.default_pool[1]]>>
  ELSE IF use_local_pool
    THEN <<[t |-> "pool", v |-> <<"l", "o", "c", "a", "l", "_", "p", "o", "o", "l">>]>>
  ELSE <<>>

\* lines 552-617: the lines of the stanza, and default_target_ after the call
EmitBuild(nn, rule_name, use_local_pool, fl, default_target) ==
  LET node == nn.node
      pool == IF node.ninja_pool_var # <<>> THEN node.ninja_pool_var[1]
              ELSE <<>>
  IN [lines |->
        <<[t |-> "build", target |-> EscapeBuildTarget(node.output),
           implicit_outputs |-> EscapeBuildTargets(node.implicit_outputs),
           rule |-> rule_name,
           always_build |-> node.is_phony /\ ~fl.use_ninja_phony_output,
           deps |-> EscapeBuildTargets(node.deps),
           order_onlys |-> EscapeBuildTargets(node.order_onlys),
           validations |-> EscapeBuildTargets(node.validations)]>>
        \o (IF node.symlink_outputs # <<>>
              THEN <<[t |-> "symlink_outputs",
                      v |-> EscapeBuildTargets(node.symlink_outputs)]>>
            ELSE <<>>)
        \o PoolLines(pool, rule_name, use_local_pool, fl)
        \o (IF node.is_phony /\ fl.use_ninja_phony_output
              THEN <<[t |-> "phony_output"]>> ELSE <<>>),
      default_target |->
        IF node.is_default_target THEN <<node.output>> ELSE default_target]

\* lines 483-486, on the answer r of GetDepfile
DepfileLines(r) ==
  [cmd |-> r.cmd, crashed |-> r.crashed,
   lines |-> IF r.ok /\ ~r.crashed
               THEN <<[t |-> "depfile", v |-> r.out], [t |-> "deps_gcc"]>>
             ELSE <<>>]

\* lines 480-487
EmitDepfile(nn, cmd_buf, fl) == DepfileLines(GetDepfile(nn.node, cmd_buf, fl))

\* lines 503-527: the lines of the rule, from the script sh and the depfile
RuleLines(nn, sh, dep) ==
  [sh |-> sh, crashed |-> dep.crashed,
   lines |->
     <<[t |-> "rule", name |-> RuleName(nn.rule_id)],
       [t |-> "description", v |-> sh.description]>>
     \o dep.lines
     \o (IF Len(dep.cmd) > RspFileThreshold
           THEN <<[t |-> "rspfile"],
                  [t |-> "rspfile_content", v |-> dep.cmd],
                  [t |-> "command", rsp |-> TRUE, body |-> <<>>]>>
         ELSE <<[t |-> "command", rsp |-> FALSE,
                 body |-> EscapeShell(dep.cmd)]>>)
     \o (IF nn.node.is_restat THEN <<[t |-> "restat"]>> ELSE <<>>)]

\* lines 503-527, on the result sh of GenShellScript
RuleOfShell(nn, fl, sh) ==
  IF sh.crashed
    THEN [sh |-> sh, crashed |-> TRUE,
          lines |-> <<[t |-> "rule", name |-> RuleName(nn.rule_id)]>>]
  ELSE RuleLines(nn, sh, EmitDepfile(nn, sh.cmd_buf, fl))

\* lines 502-527: the rule of a node with commands
EmitRule(nn, fl, oob) ==
  RuleOfShell(nn, fl, GenShellScript(nn.node.output, nn.commands, fl, oob))

NoShell ==
  [cmd_buf |-> <<>>, description |-> <<>>, use_local_pool |-> FALSE,
   iters |-> <<>>, crashed |-> FALSE]

\* lines 528-529, on the stanza that EmitBuild wrote
NodeLines(before, rule, build) ==
  [lines |-> before \o build.lines, default_target |-> build.default_target,
   sh |-> rule.sh, crashed |-> FALSE]

\* lines 497-529, on the rule written for the node (none without commands)
NodeOfRule(nn, fl, default_target, rule) ==
  IF rule.crashed
    THEN [lines |-> (IF fl.enable_debug THEN <<[t |-> "comment"]>> ELSE <<>>)
                    \o rule.lines,
          default_target |-> default_target, sh |-> rule.sh,
          crashed |-> TRUE]
  ELSE NodeLines((IF fl.enable_debug THEN <<[t |-> "comment"]>> ELSE <<>>)
                 \o rule.lines,
                 rule,
                 EmitBuild(nn,
                           IF nn.commands # <<>> THEN RuleName(nn.rule_id)
                           ELSE PhonyRule,
                           rule.sh.use_local_pool, fl, default_target))

\* lines 489-530
EmitNode(nn, fl, default_target, oob) ==
  IF IsSpecialTarget(nn.node.output)
    THEN [lines |-> <<>>, default_target |-> default_target, sh |-> NoShell,
          crashed |-> FALSE]
  ELSE NodeOfRule(nn, fl, default_target,
                  IF nn.commands # <<>> THEN EmitRule(nn, fl, oob)
                  ELSE [sh |-> NoShell, crashed |-> FALSE, lines |-> <<>>])

RECURSIVE JoinNames(_)
JoinNames(names) ==
  IF names = <<>> THEN <<>>
  ELSE IF Len(names) = 1 THEN EscapeBuildTarget(names[1])
  ELSE EscapeBuildTarget(names[1]) \o <<" ">> \o JoinNames(Tail(names))

\* the flagged default only without named targets
UsesFlaggedDefaultWithoutTargets(fl) == fl.targets = <<>>

\* line 665: the plan's default is the flagged node, not the named targets
UsesFlaggedDefault(fl) == fl.targets = <<>> \/ fl.gen_all_targets

\* lines 664-674: default_targets; failed when CHECK(default_target_) fails
DefaultTargets(fl, default_target) ==
  IF UsesFlaggedDefault(fl)
    THEN IF default_target = <<>> THEN [failed |-> TRUE, v |-> <<>>]
         ELSE [failed |-> FALSE, v |-> EscapeBuildTarget(default_target[1])]
  ELSE [failed |-> FALSE, v |-> JoinNames(fl.targets)]

\* lines 627-648: what GenerateNinja writes before the nodes
Prelude(f) ==
  <<[t |-> "comment"]>>
  \o (IF f.no_ninja_prelude THEN <<>>
      ELSE (IF f.ninja_dir # <<>>
              THEN <<[t |-> "builddir", v |-> f.ninja_dir[1]]>> ELSE <<>>)
           \o <<[t |-> "pool_decl", v |-> <<"l", "o", "c", "a", "l", "_", "p", "o", "o", "l">>]>>
           \o (IF ~f.use_ninja_phony_output
                 THEN <<[t |-> "build_always"]>> ELSE <<>>))

\* GenerateNinja, lines 621-648
GenerateNinjaBegin ==
  /\ pc = "ninja_begin" /\ ~aborted
  /\ ninja_out' = Prelude(g_flags)
  /\ ei' = IF g_flags.generate_empty_ninja THEN Len(nodes_) + 1 ELSE 1
  /\ pc' = "ninja_nodes"
  /\ UNCHANGED <<aborted, g_flags, default_target_, script, notEm>>

\* GenerateNinja, lines 650-654: EmitNode on the next node
EmitNodeStep ==
  /\ pc = "ninja_nodes" /\ ~aborted
  /\ ei <= Len(nodes_)
  /\ \E oob \in OobOutcomes :
       LET r == EmitNode(nodes_[ei], g_flags, default_target_, oob)
       IN /\ ninja_out' = ninja_out \o r.lines
          /\ default_target_' = r.default_target
          /\ script' = r.sh
          /\ aborted' = r.crashed
  /\ ei' = ei + 1
  /\ UNCHANGED <<pc, g_flags, notEm>>

\* GenerateNinja, lines 664-678: the default declaration
GenerateNinjaDefault ==
  /\ pc = "ninja_nodes" /\ ~aborted
  /\ ei > Len(nodes_)
  /\ LET d == DefaultTargets(g_flags, default_target_)
     IN IF d.failed
          THEN aborted' = TRUE /\ UNCHANGED <<pc, ninja_out>>
        ELSE /\ aborted' = FALSE
             /\ pc' = "done"
             /\ ninja_out' = IF g_flags.generate_empty_ninja THEN ninja_out
                       ELSE Append(ninja_out, [t |-> "default", v |-> d.v])
  /\ UNCHANGED <<g_flags, default_target_, script, ei, notEm>>

NextNinja ==
  \/ GenerateNinjaBegin
  \/ EmitNodeStep
  \/ GenerateNinjaDefault

\* the commands the recipes of SpecShell are made of: silent and echoed,
\* with and without an ignored exit status; an echo, a mkdir of the output's
\* directory, a comment, a compilation, one through gomacc, and one that the
\* gomacc splice and the depfile detection recognise
Commands ==
  {[cmd |-> <<"e", "c", "h", "o", " ", "h", "i">>,
    echo |-> FALSE, ignore_error |-> FALSE],
   [cmd |-> <<"e", "c", "h", "o", " ", "h", "i">>,
    echo |-> TRUE, ignore_error |-> FALSE],
   [cmd |-> <<"m", "k", "d", "i", "r", " ", "-", "p", " ", "d">>,
    echo |-> FALSE, ignore_error |-> FALSE],
   [cmd |-> <<"m", "k", "d", "i", "r", " ", "-", "p", " ", "d", "/">>,
    echo |-> FALSE, ignore_error |-> FALSE],
   [cmd |-> <<"m", "k", "d", "i", "r", " ", "-", "p", " ", "d">>,
    echo |-> TRUE, ignore_error |-> FALSE],
   [cmd |-> <<"c", "c", " ", "x">>,
    echo |-> TRUE, ignore_error |-> FALSE],
   [cmd |-> <<"c", "c", " ", "x">>,
    echo |-> TRUE, ignore_error |-> TRUE],
   [cmd |-> <<"#", " ", "c">>,
    echo |-> FALSE, ignore_error |-> FALSE],
   [cmd |-> <<"g", "/", "g", "o", "m", "a", "c", "c", " ", "x">>,
    echo |-> TRUE, ignore_error |-> FALSE],
   [cmd |-> <<"p", "r", "e", "b", "u", "i", "l", "t", "s", "/", "g", "c", "c", "/", "g", "c", "c", " ", "-", "M", "D", " ", "-", "c", " ", "-", "o", " ", "a">>,
    echo |-> TRUE, ignore_error |-> FALSE]}

Recipes == UNION {[1..n -> Commands] : n \in 1..MaxCmds}

NoFlags ==
  [detect_android_echo |-> FALSE, goma_dir |-> <<>>, use_goma_ |-> FALSE,
   remote_num_jobs |-> 0, detect_depfiles |-> FALSE, default_pool |-> <<>>,
   use_ninja_phony_output |-> FALSE, enable_debug |-> FALSE,
   targets |-> <<>>, gen_all_targets |-> FALSE,
   generate_empty_ninja |-> FALSE, no_ninja_prelude |-> FALSE,
   ninja_dir |-> <<>>]

\* the ways remote execution is switched on (lines 189-192, 462)
RemoteSettings ==
  {[use_goma_ |-> FALSE, remote_num_jobs |-> 0, goma_dir |-> <<>>],
   [use_goma_ |-> TRUE, remote_num_jobs |-> 0, goma_dir |-> <<>>],
   [use_goma_ |-> FALSE, remote_num_jobs |-> 1, goma_dir |-> <<>>],
   [use_goma_ |-> FALSE, remote_num_jobs |-> 0, goma_dir |-> <<<<"g">>>>]}

PlainNode(output) ==
  [output |-> output, is_phony |-> FALSE, is_restat |-> FALSE,
   is_default_target |-> FALSE, implicit_outputs |-> <<>>, deps |-> <<>>,
   order_onlys |-> <<>>, validations |-> <<>>, symlink_outputs |-> <<>>,
   depfile_var |-> <<>>, ninja_pool_var |-> <<>>]

\* SpecShell: the plan of one node, d/o, with a recipe
InitShell ==
  /\ pc = "ninja_begin"
  /\ aborted = FALSE
  /\ GenIdle
  /\ DepIdle
  /\ LockIdle
  /\ g = <<>> /\ done_ = {} /\ rule_id_ = 1 /\ stack = <<>> /\ ri = 1
  /\ \E recipe \in Recipes :
       nodes_ = <<[node |-> [PlainNode(<<"d", "/", "o">>)
                               EXCEPT !.is_default_target = TRUE],
                   commands |-> recipe, rule_id |-> 0]>>
  /\ \E android \in BOOLEAN, depfiles \in BOOLEAN, remote \in RemoteSettings :
       g_flags = [NoFlags EXCEPT !.detect_android_echo = android,
                                 !.detect_depfiles = depfiles,
                                 !.use_goma_ = remote.use_goma_,
                                 !.remote_num_jobs = remote.remote_num_jobs,
                                 !.goma_dir = remote.goma_dir]
  /\ ninja_out = <<>> /\ default_target_ = <<>> /\ script = NoShell /\ ei = 1

SpecShell == InitShell /\ [][NextNinja]_vars

\* the nodes the plans of SpecEmit are made of: with a recipe or phony
\* without one, flagged default-target or not, with a pool variable (that
\* evaluates to a name, to "none" or to nothing) or without, and a special
\* target
CcRecipe == <<[cmd |-> <<"c", "c", " ", "x">>, echo |-> TRUE, ignore_error |-> FALSE]>>

NodeChoices ==
  {[commands |-> CcRecipe, is_phony |-> FALSE, is_default_target |-> FALSE,
    ninja_pool_var |-> <<>>, special |-> FALSE],
   [commands |-> CcRecipe, is_phony |-> FALSE, is_default_target |-> TRUE,
    ninja_pool_var |-> <<>>, special |-> FALSE],
   [commands |-> CcRecipe, is_phony |-> FALSE, is_default_target |-> FALSE,
    ninja_pool_var |-> <<PoolNone>>, special |-> FALSE],
   [commands |-> CcRecipe, is_phony |-> FALSE, is_default_target |-> TRUE,
    ninja_pool_var |-> <<<<"p">>>>, special |-> FALSE],
   [commands |-> CcRecipe, is_phony |-> FALSE, is_default_target |-> FALSE,
    ninja_pool_var |-> <<<<>>>>, special |-> FALSE],
   [commands |-> <<>>, is_phony |-> TRUE, is_default_target |-> FALSE,
    ninja_pool_var |-> <<>>, special |-> FALSE],
   [commands |-> <<>>, is_phony |-> TRUE, is_default_target |-> TRUE,
    ninja_pool_var |-> <<<<"p">>>>, special |-> FALSE],
   [commands |-> <<>>, is_phony |-> TRUE, is_default_target |-> FALSE,
    ninja_pool_var |-> <<>>, special |-> TRUE]}

\* the output of the i-th node: n1, n2, ...; .PHONY for a special target
OutputName(i, special) ==
  IF special THEN <<".", "P", "H", "O", "N", "Y">> ELSE <<"n", ToString(i)>>

\* nodes_ as PopulateNinjaNode leaves it (lines 248-252): a node with
\* commands has the next rule id, one without has -1
NinjaNodesOf(choices) ==
  [i \in 1..Len(choices) |->
     [node |-> [PlainNode(OutputName(i, choices[i].special))
                  EXCEPT !.is_phony = choices[i].is_phony,
                         !.is_default_target = choices[i].is_default_target,
                         !.ninja_pool_var = choices[i].ninja_pool_var],
      commands |-> choices[i].commands,
      rule_id |-> IF choices[i].commands = <<>> THEN 0 - 1
                  ELSE Cardinality({j \in 1..(i - 1) :
                                      choices[j].commands # <<>>})]]

\* SpecEmit: the plan of up to MaxNodes nodes
InitEmit ==
  /\ pc = "ninja_begin"
  /\ aborted = FALSE
  /\ GenIdle
  /\ DepIdle
  /\ LockIdle
  /\ g = <<>> /\ done_ = {} /\ stack = <<>> /\ ri = 1
  /\ \E choices \in UNION {[1..n -> NodeChoices] : n \in 0..MaxNodes} :
       \* the graph flags one node, its first target, as the default
       /\ Cardinality({j \in 1..Len(choices) :
                         choices[j].is_default_target}) <= 1
       /\ nodes_ = NinjaNodesOf(choices)
       /\ rule_id_ = Cardinality({j \in 1..Len(choices) :
                                    choices[j].commands # <<>>})
  /\ \E pool \in {<<>>, <<<<"d", "p">>>>}, goma \in BOOLEAN,
        targets \in {<<>>, <<<<"t", ":", "1">>, <<"u">>>>},
        all \in BOOLEAN, empty \in BOOLEAN :
       g_flags = [NoFlags EXCEPT !.default_pool = pool,
                                 !.use_goma_ = goma,
                                 !.targets = targets,
                                 !.gen_all_targets = all,
                                 !.generate_empty_ninja = empty]
  /\ ninja_out = <<>> /\ default_target_ = <<>> /\ script = NoShell /\ ei = 1

SpecEmit == InitEmit /\ [][NextNinja]_vars

(***************************************************************************)
(* SpecDepfile: GetDepfile on the text of a compilation                    *)
(***************************************************************************)
\* a word of a command line: its text and, for a flag the detection looks
\* for, which flag it is and the path that follows it
Word(text, flag, path) == [text |-> text, flag |-> flag, path |-> path]

\* what comes first after the compiler: -c, -MD and -MMD, alone or together
Modes ==
  {<<>>,
   <<Word(<<"-", "c">>, "c", <<>>)>>,
   <<Word(<<"-", "M", "D">>, "MD", <<>>)>>,
   <<Word(<<"-", "c">>, "c", <<>>), Word(<<"-", "M", "D">>, "MD", <<>>)>>,
   <<Word(<<"-", "M", "M", "D">>, "MD", <<>>), Word(<<"-", "c">>, "c", <<>>)>>}

\* the flags with a path
PathFlags ==
  {Word(<<"-", "M", "F", " ", "d", ".", "d">>, "MF", <<"d", ".", "d">>),
   Word(<<"-", "M", "F", " ", "o", ".", "d">>, "MF", <<"o", ".", "d">>),
   Word(<<"-", "o", " ", "o", ".", "o">>, "o", <<"o", ".", "o">>),
   Word(<<"-", "o", " ", "e">>, "o", <<"e">>)}

\* the words the hacks of GetDepfileFromCommand look for, in the order they
\* stand in the text
HackWords ==
  <<Word(<<"o", ".", "P">>, "", <<>>),
    Word(<<";", " ", "r", "m", " ", "-", "f", " ", "o", ".", "d">>, "", <<>>),
    Word(<<"a", "/", "o", ".", "s">>, "", <<>>),
    Word(<<"b", "i", "n", "/", "l", "l", "v", "m", "-", "r", "s", "-", "c", "c">>, "", <<>>)>>

\* the words of `words` at the places in `at`, in their order
RECURSIVE Chosen(_, _, _)
Chosen(words, at, k) ==
  IF k > Len(words) THEN <<>>
  ELSE (IF k \in at THEN <<words[k]>> ELSE <<>>) \o Chosen(words, at, k + 1)

\* the text of a command: the compiler and the words, a space before each
RECURSIVE CommandText(_)
CommandText(words) ==
  IF words = <<>> THEN <<"c", "c">>
  ELSE CommandText(SubSeq(words, 1, Len(words) - 1))
       \o <<" ">> \o words[Len(words)].text

NotDetected ==
  [ok |-> FALSE, out |-> <<>>, cmd |-> <<>>, error |-> FALSE, impl |-> <<>>]

InitDepfile ==
  /\ pc = "depfile"
  /\ aborted = FALSE
  /\ GenIdle /\ PopIdle /\ EmIdle /\ LockIdle
  /\ \E mode \in Modes,
        flags \in UNION {[1..n -> PathFlags] : n \in 0..MaxFlags},
        hacks \in SUBSET (1..Len(HackWords)) :
       argv = mode \o flags \o Chosen(HackWords, hacks, 1)
  /\ detected = NotDetected

\* EmitDepfile, lines 480-487, for a node without depfile variable and with
\* detect_depfiles on: GetDepfile gives the text to GetDepfileFromCommand.
\* detected.impl is what GetDepfileFromCommandImpl answered on the way
EmitDepfileStep ==
  /\ pc = "depfile" /\ ~aborted
  /\ LET r == GetDepfile(PlainNode(<<"o">>), CommandText(argv),
                         [NoFlags EXCEPT !.detect_depfiles = TRUE])
     IN /\ detected' =
             [ok |-> r.ok, out |-> r.out, cmd |-> r.cmd, error |-> r.error,
              impl |-> GetDepfileFromCommandImpl(
                         Append(CommandText(argv), " "))]
        /\ aborted' = r.crashed
  /\ pc' = "done"
  /\ UNCHANGED <<argv, notDep>>

NextDepfile == EmitDepfileStep

SpecDepfile == InitDepfile /\ [][NextDepfile]_vars

(***************************************************************************)
(* SpecNames: the plan of one node whose names need escaping               *)
(***************************************************************************)
\* names with and without the characters ninja reads specially
Names ==
  {<<"a">>, <<"a", " ", "b">>, <<"$", "a">>, <<"c", ":">>, <<"a", "$">>}

\* where a node, or the command line, carries names besides the output
Places ==
  {"implicit_outputs", "deps", "order_onlys", "validations",
   "symlink_outputs", "targets"}

\* the list at `place` is `names` when it is the place chosen
NamesAt(place, chosen, names) == IF place = chosen THEN names ELSE <<>>

InitNames ==
  /\ pc = "ninja_begin"
  /\ aborted = FALSE
  /\ GenIdle
  /\ DepIdle
  /\ LockIdle
  /\ g = <<>> /\ done_ = {} /\ rule_id_ = 1 /\ stack = <<>> /\ ri = 1
  /\ \E output \in Names, other \in Names, both \in BOOLEAN,
        chosen \in Places, all \in BOOLEAN :
       LET names == IF both THEN <<other, output>> ELSE <<other>>
       IN /\ nodes_ =
               <<[node |-> [PlainNode(output) EXCEPT
                    !.is_default_target = TRUE,
                    !.implicit_outputs = NamesAt("implicit_outputs", chosen, names),
                    !.deps = NamesAt("deps", chosen, names),
                    !.order_onlys = NamesAt("order_onlys", chosen, names),
                    !.validations = NamesAt("validations", chosen, names),
                    !.symlink_outputs = NamesAt("symlink_outputs", chosen, names)],
                  commands |-> CcRecipe, rule_id |-> 0]>>
          /\ g_flags = [NoFlags EXCEPT !.targets = NamesAt("targets", chosen, names),
                                       !.gen_all_targets = all]
  /\ ninja_out = <<>> /\ default_target_ = <<>> /\ script = NoShell /\ ei = 1

SpecNames == InitNames /\ [][NextNinja]_vars

(***************************************************************************)
(* SpecLock: calls of EmitBuild, one per node, run at the same time or one *)
(* after the other                                                         *)
(***************************************************************************)
\* the nodes the calls are made on: those outside any pool
LockChoices == {c \in NodeChoices : c.ninja_pool_var = <<>> /\ ~c.special}

InitLock ==
  /\ pc = "emit_build"
  /\ aborted = FALSE
  /\ GenIdle
  /\ DepIdle
  /\ g = <<>> /\ done_ = {} /\ stack = <<>> /\ ri = 1
  /\ \E choices \in UNION {[1..n -> LockChoices] : n \in 1..MaxCalls} :
       /\ nodes_ = NinjaNodesOf(choices)
       /\ rule_id_ = Cardinality({j \in 1..Len(choices) :
                                    choices[j].commands # <<>>})
       /\ epc = [i \in 1..Len(choices) |-> "stanza"]
  /\ g_flags = NoFlags
  /\ ninja_out = <<>> /\ default_target_ = <<>> /\ script = NoShell /\ ei = 1
  /\ mu_ = 0
  /\ serial \in BOOLEAN

\* the call is at line 613, and with one thread the calls before it are over
AtDefaultTest(t) ==
  /\ epc[t] = "stanza"
  /\ serial => \A u \in 1..(t - 1) : epc[u] = "returned"

\* the write is reached without waiting for mu_
EmitBuildLockNoWait(t) ==
  /\ AtDefaultTest(t)
  /\ nodes_[t].node.is_default_target
  /\ mu_' = t
  /\ epc' = [epc EXCEPT ![t] = "locked"]
  /\ UNCHANGED <<pc, aborted, genVars, popVars, emVars, depVars, serial>>

\* line 613, the node is not flagged: EmitBuild returns
EmitBuildReturn(t) ==
  /\ AtDefaultTest(t)
  /\ ~nodes_[t].node.is_default_target
  /\ epc' = [epc EXCEPT ![t] = "returned"]
  /\ UNCHANGED <<pc, aborted, genVars, popVars, emVars, depVars, mu_, serial>>

\* line 614: unique_lock<mutex> lock(mu_) waits until mu_ is free
EmitBuildLock(t) ==
  /\ AtDefaultTest(t)
  /\ nodes_[t].node.is_default_target
  /\ mu_ = 0
  /\ mu_' = t
  /\ epc' = [epc EXCEPT ![t] = "locked"]
  /\ UNCHANGED <<pc, aborted, genVars, popVars, emVars, depVars, serial>>

\* line 615: default_target_ = node
EmitBuildWrite(t) ==
  /\ epc[t] = "locked"
  /\ default_target_' =
       EmitBuild(nodes_[t], RuleName(nodes_[t].rule_id), FALSE, g_flags,
                 default_target_).default_target
  /\ epc' = [epc EXCEPT ![t] = "written"]
  /\ UNCHANGED <<pc, aborted, genVars, popVars, depVars, g_flags, ninja_out,
                 script, ei, mu_, serial>>

\* line 616: the lock goes out of scope and EmitBuild returns
EmitBuildUnlock(t) ==
  /\ epc[t] = "written"
  /\ mu_' = 0
  /\ epc' = [epc EXCEPT ![t] = "returned"]
  /\ UNCHANGED <<pc, aborted, genVars, popVars, emVars, depVars, serial>>

NextLock ==
  \/ \E t \in 1..Len(nodes_) : EmitBuildReturn(t)
  \/ \E t \in 1..Len(nodes_) : EmitBuildLock(t)
  \/ \E t \in 1..Len(nodes_) : EmitBuildWrite(t)
  \/ \E t \in 1..Len(nodes_) : EmitBuildUnlock(t)

SpecLock == InitLock /\ [][NextLock]_vars

(***************************************************************************)
(* Claims on the traversal                                                 *)
(***************************************************************************)
NodesOutputsDistinct ==
  \A i, j \in 1..Len(nodes_) : nodes_[i].node = nodes_[j].node => i = j

\* C3: for every graph (diamonds and cycles included) and every list of
\* roots, PopulateNinjaNodes terminates, and at no point does nodes_ hold two
\* NinjaNodes of the same output name: a node reached again, by whichever
\* kind of edge, is neither evaluated nor descended into a second time.
C3_TerminatesOneNodePerOutput ==
  /\ [](NodesOutputsDistinct /\ ~aborted)
  /\ <>(pc = "done")

\* the traversal is over and a node that two edges lead to was reached twice
C3_Witness ==
  /\ pc = "done"
  /\ \E n \in Nodes :
       /\ \E i \in 1..Len(nodes_) : nodes_[i].node = n
       /\ Cardinality({e \in g.edges : e[3] = n /\ e[1] \in done_
                                         /\ ~IsLeafNode(g, e[1])}) >= 2

Targets(gr, n) == {e[3] : e \in {x \in gr.edges : x[1] = n}}

\* the nodes a path of edges leads to from a root, through any nodes
RECURSIVE ReachFrom(_, _)
ReachFrom(gr, seen) ==
  LET more == seen \cup UNION {Targets(gr, n) : n \in seen}
  IN IF more = seen THEN seen ELSE ReachFrom(gr, more)

Reachable(gr) == ReachFrom(gr, {gr.roots[i] : i \in 1..Len(gr.roots)})

Emittable(gr, n) ==
  (gr.kind[n].has_rule \/ gr.kind[n].is_phony)
  /\ ~(gr.detect_android_echo /\ n = "out")

\* the nodes a path leads to from a root through emittable nodes only
RECURSIVE EmitReachFrom(_, _)
EmitReachFrom(gr, seen) ==
  LET more == seen \cup
                UNION {Targets(gr, n) : n \in {m \in seen : Emittable(gr, m)}}
  IN IF more = seen THEN seen ELSE EmitReachFrom(gr, more)

EmitReachable(gr) ==
  {n \in EmitReachFrom(gr, {gr.roots[i] : i \in 1..Len(gr.roots)}) :
     Emittable(gr, n)}

Emitted == {nodes_[i].node : i \in 1..Len(nodes_)}

\* C4 as stated (leaving the Android `out` alias aside): once the traversal
\* is over, every node with a recipe or phony that is reachable from a root
\* has an emission node, also when the only paths to it pass through leaves.
C4_ReachedThroughLeaves ==
  (pc = "done" /\ ~g.detect_android_echo) =>
     \A n \in Reachable(g) :
        (g.kind[n].has_rule \/ g.kind[n].is_phony) => n \in Emitted

\* C4 amended: a leaf is neither emitted nor descended into; once the
\* traversal is over, the emission nodes are exactly the nodes with a recipe
\* or phony (the Android `out` alias excepted) that a path from a root
\* reaches through such nodes only.
C4_EmittedAreReachedThroughEmitted ==
  pc = "done" => Emitted = EmitReachable(g)

\* a node with a recipe lies behind a leaf only, and the traversal is over
C4_Witness ==
  /\ pc = "done"
  /\ \E n \in Reachable(g) \ EmitReachable(g) :
       /\ g.kind[n].has_rule
       /\ \E l \in done_ : IsLeafNode(g, l) /\ <<l, "deps", n>> \in g.edges

(***************************************************************************)
(* Claims on Generate and the stamp                                        *)
(***************************************************************************)
StampPath == ".kati_stamp"

StampWholeOrAbsent ==
  fs[StampPath].exists => fs[StampPath].data \in {PrevStamp, StampRecord(inp)}

\* C1: in every state of a Generate run, an abort at any step included, the
\* canonical stamp path is absent or holds a completely written stamp (the
\* previous run's or this run's), and the only step that puts content under
\* the canonical name is the final rename, which puts the whole record there.
C1_NoPartialStampObservable ==
  /\ []StampWholeOrAbsent
  /\ [][fs'[StampPath] # fs[StampPath] =>
         \/ pc = "unlink" /\ ~fs'[StampPath].exists
         \/ pc = "rename" /\ fs'[StampPath].data = StampRecord(inp)]_vars

\* the run aborted in the middle of the stamp write: the temp file holds a
\* proper prefix of the record
C1_Witness ==
  /\ aborted /\ pc = "stamp_write"
  /\ 0 < nwritten /\ nwritten < Len(StampRecord(inp))
  /\ fs[".kati_stamp.tmp"].data = SubSeq(StampRecord(inp), 1, nwritten)

\* C2 as stated: until the final rename the previous stamp stays under the
\* canonical name, so a run that aborts before the rename leaves it there.
C2_PrevStampKeptUntilRename ==
  (inp.prev /\ pc # "done") =>
     fs[StampPath] = [exists |-> TRUE, data |-> PrevStamp]

\* C2 amended: Generate first unlinks the canonical stamp; from then until
\* the final rename the canonical path holds no stamp at all (so a run that
\* aborts before the rename leaves no stamp, not the previous one), and after
\* the rename it holds this run's complete record.
C2_StampAbsentUntilRename ==
  /\ pc \in {"populate", "ninja", "shell", "stamp_open", "stamp_write",
              "rename"} => ~fs[StampPath].exists
  /\ pc = "done" => fs[StampPath] =
                      [exists |-> TRUE, data |-> StampRecord(inp)]

\* a run that started with a previous stamp aborted during the stamp write
C2_Witness ==
  /\ inp.prev /\ aborted /\ pc = "stamp_write" /\ nwritten > 0
  /\ ~fs[StampPath].exists

(***************************************************************************)
(* Claims on the plan: the default declaration and the pools (SpecEmit)    *)
(***************************************************************************)
LinesOfKind(kind) == SelectSeq(ninja_out, LAMBDA l : l.t = kind)

\* the nodes of the plan that the graph flagged default-target
Flagged ==
  {i \in 1..Len(nodes_) : nodes_[i].node.is_default_target}

FlaggedOutput == nodes_[CHOOSE i \in Flagged : TRUE].node.output

DefaultLineOf(v) == <<[t |-> "default", v |-> v]>>

\* C5 as stated: with targets named the default declaration lists exactly
\* those targets and the run needs no flagged default; with none named the
\* declaration names the flagged node; with neither, the run aborts and
\* writes no default declaration.
C5_DefaultIsTargetsElseFlagged ==
  /\ g_flags.targets # <<>> =>
       /\ ~aborted
       /\ pc = "done" =>
            LinesOfKind("default") = DefaultLineOf(JoinNames(g_flags.targets))
  /\ (g_flags.targets = <<>> /\ pc = "done") =>
       /\ Flagged # {}
       /\ LinesOfKind("default") =
            DefaultLineOf(EscapeBuildTarget(FlaggedOutput))
  /\ (g_flags.targets = <<>> /\ Flagged = {}) =>
       pc # "done" /\ LinesOfKind("default") = <<>>

\* the run's named targets decide the default declaration
TargetsDecide == g_flags.targets # <<>> /\ ~g_flags.gen_all_targets

\* the flagged nodes that EmitNode went through
FlaggedEmitted == IF g_flags.generate_empty_ninja THEN {} ELSE Flagged

\* C5 amended: the named targets are declared only when gen_all_targets is
\* off; with no targets named, or with gen_all_targets on, the declaration
\* names the emitted flagged node and the run aborts when no flagged node was
\* emitted; with generate_empty_ninja no node is emitted and no default
\* declaration is written at all.
C5_DefaultIsTargetsUnlessGenAll ==
  /\ TargetsDecide => ~aborted
  /\ pc = "done" =>
       /\ TargetsDecide \/ FlaggedEmitted # {}
       /\ LinesOfKind("default") =
            IF g_flags.generate_empty_ninja THEN <<>>
            ELSE IF TargetsDecide
              THEN DefaultLineOf(JoinNames(g_flags.targets))
            ELSE DefaultLineOf(EscapeBuildTarget(FlaggedOutput))
  /\ aborted =>
       ~TargetsDecide /\ FlaggedEmitted = {} /\ LinesOfKind("default") = <<>>
  /\ (~TargetsDecide /\ FlaggedEmitted = {}) => pc # "done"

\* targets were named with gen_all_targets on, and the declaration names the
\* flagged node
C5_Witness ==
  /\ pc = "done" /\ g_flags.targets # <<>> /\ g_flags.gen_all_targets
  /\ Flagged # {}
  /\ LinesOfKind("default") = DefaultLineOf(EscapeBuildTarget(FlaggedOutput))

\* the node whose stanza EmitNode wrote last
LastEmitted == nodes_[ei - 1]

StanzaWritten ==
  /\ ei > 1 /\ ~g_flags.generate_empty_ninja /\ ~aborted
  /\ ~IsSpecialTarget(LastEmitted.node.output)

\* the place of the last build line of the plan
LastBuildAt ==
  CHOOSE i \in 1..Len(ninja_out) :
    ninja_out[i].t = "build" /\ \A j \in (i + 1)..Len(ninja_out) : ninja_out[j].t # "build"

\* the pool lines of the last stanza
LastStanzaPools ==
  SelectSeq(SubSeq(ninja_out, LastBuildAt, Len(ninja_out)), LAMBDA l : l.t = "pool")

PoolLineOf(v) == <<[t |-> "pool", v |-> v]>>

\* the value of the node's pool variable; nothing without the variable
PoolVarValue(node) ==
  IF node.ninja_pool_var = <<>> THEN <<>> ELSE node.ninja_pool_var[1]

\* C7: a stanza has at most one pool line: the node's own pool when its pool
\* variable has a value (no line at all for "none"), else the default pool
\* when one is configured and the rule is not phony, else local_pool when
\* the recipe qualifies, else none.
C7_PoolByFirstMatch ==
  StanzaWritten =>
    LET node == LastEmitted.node
        own == PoolVarValue(node)
    IN /\ ninja_out[LastBuildAt].target = EscapeBuildTarget(node.output)
       /\ Len(LastStanzaPools) <= 1
       /\ own # <<>> =>
            LastStanzaPools = IF own = PoolNone THEN <<>> ELSE PoolLineOf(own)
       /\ (own = <<>> /\ g_flags.default_pool # <<>>
             /\ ninja_out[LastBuildAt].rule # PhonyRule) =>
            LastStanzaPools = PoolLineOf(g_flags.default_pool[1])
       /\ (own = <<>> /\ ~(g_flags.default_pool # <<>>
                            /\ ninja_out[LastBuildAt].rule # PhonyRule)) =>
            LastStanzaPools = IF script.use_local_pool
                                THEN PoolLineOf(<<"l", "o", "c", "a", "l", "_", "p", "o", "o", "l">>)
                              ELSE <<>>

\* a node with the pool "none", a default pool configured and a recipe that
\* qualifies for the local pool: its stanza has no pool line
C7_Witness ==
  /\ StanzaWritten
  /\ PoolVarValue(LastEmitted.node) = PoolNone
  /\ g_flags.default_pool # <<>> /\ script.use_local_pool
  /\ ninja_out[LastBuildAt].rule # PhonyRule
  /\ LastStanzaPools = <<>>

(***************************************************************************)
(* Claims on the command body of a rule (SpecShell)                        *)
(***************************************************************************)
\* EmitNode has written the rule of the plan's node
RuleWritten == ei = 2 /\ ~script.crashed

TheRecipe == nodes_[1].commands

\* the commands of the recipe whose fragment stays in the body
Kept == {k \in 1..Len(script.iters) : ~script.iters[k].dropped}

\* the fragment of command k as it stands in the body: with gomacc before
\* the compiler where the splice applies
FragmentOf(k) ==
  LET piece == script.iters[k].piece
  IN IF g_flags.goma_dir # <<>>
          /\ GetGomaccPosForAndroidCompileCommand(piece) # NPOS
       THEN Insert(piece, GetGomaccPosForAndroidCompileCommand(piece),
                   Gomacc(g_flags))
     ELSE piece

\* command k in a sub-shell, with "; true" inside it when its exit status is
\* ignored
Wrapped(k) ==
  <<"(">> \o FragmentOf(k)
  \o (IF TheRecipe[k].ignore_error THEN <<" ", ";", " ", "t", "r", "u", "e">> ELSE <<>>)
  \o <<" ", ")">>

\* the body made of the kept commands from k on, joined with " && ";
\* wraps[k] tells whether command k stands in a sub-shell
RECURSIVE BodyFrom(_, _, _)
BodyFrom(k, wraps, first) ==
  IF k > Len(TheRecipe) THEN <<>>
  ELSE IF k \notin Kept THEN BodyFrom(k + 1, wraps, first)
  ELSE (IF first THEN <<>> ELSE <<" ", "&", "&", " ">>)
       \o (IF wraps[k] THEN Wrapped(k) ELSE FragmentOf(k))
       \o BodyFrom(k + 1, wraps, FALSE)

\* C6 as stated: the kept commands are joined with " && ", and each is in a
\* sub-shell when the recipe has more than one command or the command
\* ignores its exit status, also when it is the only command left.
C6_WrappedByRecipeSize ==
  RuleWritten =>
    script.cmd_buf =
      BodyFrom(1, [k \in 1..Len(TheRecipe) |->
                     Len(TheRecipe) > 1 \/ TheRecipe[k].ignore_error], TRUE)

\* the commands before k that were dropped
DroppedBefore(k) == {j \in 1..(k - 1) : j \notin Kept}

\* C6 amended: a command is in a sub-shell when the recipe's size less the
\* commands dropped before it is more than one, or when the command ignores
\* its exit status; so a command left alone by a drop before it is not
\* wrapped, while one left alone by a drop after it is.
C6_WrappedByCommandsLeft ==
  RuleWritten =>
    script.cmd_buf =
      BodyFrom(1, [k \in 1..Len(TheRecipe) |->
                     Len(TheRecipe) - Cardinality(DroppedBefore(k)) > 1
                     \/ TheRecipe[k].ignore_error], TRUE)

\* a recipe of two commands whose first was dropped: the second is the body,
\* without a sub-shell
C6_Witness ==
  /\ RuleWritten /\ Len(TheRecipe) = 2 /\ Kept = {2}
  /\ ~TheRecipe[2].ignore_error
  /\ script.cmd_buf = FragmentOf(2)

\* remote execution is switched on for the whole run
RemoteEnabled ==
  g_flags.use_goma_ \/ g_flags.remote_num_jobs > 0 \/ g_flags.goma_dir # <<>>

\* a kept command has "/gomacc" in its fragment
GomaccPresent ==
  \E k \in Kept : Find(script.iters[k].piece, <<"/", "g", "o", "m", "a", "c", "c">>) # NPOS

\* gomacc was spliced into a kept command
GomaccSpliced ==
  /\ g_flags.goma_dir # <<>>
  /\ \E k \in Kept :
       GetGomaccPosForAndroidCompileCommand(script.iters[k].piece) # NPOS

\* C8 as stated: the recipe qualifies for the local pool when a command used
\* gomacc (spliced or present) or when remote execution is enabled.
C8_LocalPoolIfGomaccOrRemote ==
  (RuleWritten /\ (GomaccSpliced \/ GomaccPresent \/ RemoteEnabled)) =>
     script.use_local_pool

\* C8 amended: the recipe qualifies exactly when remote execution is enabled
\* and no command was found to use gomacc: none had gomacc spliced in and,
\* looked for only when no goma directory is configured, none had "/gomacc"
\* in its fragment.
C8_LocalPoolIffRemoteWithoutGomacc ==
  RuleWritten =>
    (script.use_local_pool <=>
       /\ RemoteEnabled
       /\ ~GomaccSpliced
       /\ ~(g_flags.goma_dir = <<>> /\ GomaccPresent))

\* remote execution is enabled and a command runs through gomacc: the recipe
\* does not qualify
C8_Witness ==
  /\ RuleWritten /\ g_flags.use_goma_ /\ GomaccPresent
  /\ ~script.use_local_pool

\* a kept command comes before command k
AfterKept(k) == \E j \in Kept : j < k

\* C9 as stated: a command after a kept one is neither dropped by a
\* heuristic nor taken as the description.
C9_HeuristicsOnlyBeforeKept ==
  RuleWritten =>
    \A k \in 1..Len(script.iters) :
      AfterKept(k) => ~script.iters[k].described /\ ~script.iters[k].mkdir

\* the command is silent and its fragment is `echo <text>` without quoting
\* trouble or redirection
PlainSilentEcho(k) ==
  ~TheRecipe[k].echo /\ GetDescriptionFromCommand(script.iters[k].piece).ok

\* C9 amended: the mkdir heuristic drops a command only when no kept command
\* comes before it; the echo heuristic takes the recipe's first silent plain
\* echo as the description wherever it stands, also after kept commands, and
\* no later one.
C9_MkdirOnlyBeforeKept ==
  RuleWritten =>
    \A k \in 1..Len(script.iters) :
      /\ script.iters[k].mkdir => ~AfterKept(k)
      /\ script.iters[k].described <=>
           /\ g_flags.detect_android_echo
           /\ PlainSilentEcho(k)
           /\ \A j \in 1..(k - 1) : ~PlainSilentEcho(j)
      /\ script.iters[k].described =>
           /\ k \notin Kept
           /\ script.description =
                GetDescriptionFromCommand(script.iters[k].piece).out

\* a silent echo after a kept command became the description and left the
\* body
C9_Witness ==
  /\ RuleWritten /\ Len(TheRecipe) = 2 /\ Kept = {1}
  /\ script.iters[2].described
  /\ script.description = <<"h", "i">>

\* the texts of a mkdir of the directory of d/o
MkdirOfOutputDir == {<<"m", "k", "d", "i", "r", " ", "-", "p", " ", "d">>, <<"m", "k", "d", "i", "r", " ", "-", "p", " ", "d", "/">>}

\* the recipe is only a mkdir of the output's directory
MkdirOnlyRecipe ==
  Len(TheRecipe) = 1 /\ TheRecipe[1].cmd \in MkdirOfOutputDir

\* the node's rule has an empty command body and its stanza names the rule
EmptyBodyRule ==
  /\ LinesOfKind("command") = <<[t |-> "command", rsp |-> FALSE, body |-> <<>>]>>
  /\ LinesOfKind("rule") = <<[t |-> "rule", name |-> RuleName(nodes_[1].rule_id)]>>
  /\ Len(LinesOfKind("build")) = 1
  /\ LinesOfKind("build")[1].rule = RuleName(nodes_[1].rule_id)

\* C10 as stated: a recipe that is only a mkdir of the output's directory
\* gives a rule with an empty command body, named by the build stanza.
C10_MkdirOnlyGivesEmptyBody ==
  (RuleWritten /\ MkdirOnlyRecipe) => EmptyBodyRule

\* C10 amended: so it is when the mkdir command is silent (its echo flag is
\* off); an echoed mkdir stays in the body.
C10_SilentMkdirOnlyGivesEmptyBody ==
  /\ (RuleWritten /\ MkdirOnlyRecipe /\ ~TheRecipe[1].echo) => EmptyBodyRule
  /\ (RuleWritten /\ MkdirOnlyRecipe /\ TheRecipe[1].echo) =>
       LinesOfKind("command") =
         <<[t |-> "command", rsp |-> FALSE, body |-> TheRecipe[1].cmd]>>

\* a silent mkdir -p d/ was the whole recipe of d/o
C10_Witness ==
  /\ RuleWritten /\ MkdirOnlyRecipe /\ ~TheRecipe[1].echo
  /\ TheRecipe[1].cmd = <<"m", "k", "d", "i", "r", " ", "-", "p", " ", "d", "/">>
  /\ EmptyBodyRule

(***************************************************************************)
(* Claims on the depfile detection (SpecDepfile)                           *)
(***************************************************************************)
HasFlag(f) == \E i \in 1..Len(argv) : argv[i].flag = f

\* the path of the last flag f of the text
LastPath(f) ==
  argv[CHOOSE i \in 1..Len(argv) :
         argv[i].flag = f /\ \A j \in (i + 1)..Len(argv) : argv[j].flag # f].path

\* the text has -MD or -MMD, and -c
Compiles == HasFlag("MD") /\ HasFlag("c")

\* the path with its extension, if it has one, replaced by .d
WithExtD(path) ==
  (IF \E i \in 1..Len(path) : path[i] = "."
     THEN SubSeq(path, 1, (CHOOSE i \in 1..Len(path) :
                             path[i] = "."
                             /\ \A j \in (i + 1)..Len(path) : path[j] # ".") - 1)
   ELSE path) \o <<".", "d">>

\* the depfile the flags name: -MF's path, else -o's with the extension .d
NamedDepfile ==
  IF HasFlag("MF") THEN LastPath("MF") ELSE WithExtD(LastPath("o"))

\* the answer r (ok, out, error) is the flags' depfile
AnswersNamedDepfile(r) ==
  /\ ~Compiles => ~r.ok /\ ~r.error
  /\ (Compiles /\ (HasFlag("MF") \/ HasFlag("o"))) =>
       r.ok /\ r.out = NamedDepfile /\ ~r.error
  /\ (Compiles /\ ~HasFlag("MF") /\ ~HasFlag("o")) => ~r.ok /\ r.error

HasWord(text) == \E i \in 1..Len(argv) : argv[i].text = text

\* NamedDepfile without its .d
NamedStem == SubSeq(NamedDepfile, 1, Len(NamedDepfile) - 2)

\* the words of the text with the text of `word` taken out of its place
WithoutWord(text) ==
  [i \in 1..Len(argv) |->
     IF argv[i].text = text THEN [argv[i] EXCEPT !.text = <<>>] ELSE argv[i]]

RmDepfile == <<";", " ", "r", "m", " ", "-", "f", " ">> \o NamedDepfile

NinjaSpecial == {"$", ":", " "}

\* how many of the first i characters of s ninja reads specially
SpecialUpTo(s, i) == Cardinality({j \in 1..i : s[j] \in NinjaSpecial})

\* e is s with exactly one $ added before each $, : and space
IsEscapeOf(e, s) ==
  /\ Len(e) = Len(s) + SpecialUpTo(s, Len(s))
  /\ \A i \in 1..Len(s) :
       /\ e[i + SpecialUpTo(s, i)] = s[i]
       /\ s[i] \in NinjaSpecial => e[i + SpecialUpTo(s, i) - 1] = "$"

\* the names of a line of the plan, as ninja reads it: a $ makes the next
\* character part of the name, a space ends the name; with `raw` the names
\* are left as written, with the $ in them
RECURSIVE ReadNames(_, _, _, _)
ReadNames(text, name, read, raw) ==
  IF text = <<>> THEN Append(read, name)
  ELSE IF Head(text) = "$" /\ Len(text) >= 2
    THEN ReadNames(Tail(Tail(text)),
                   name \o (IF raw THEN <<"$">> ELSE <<>>) \o <<text[2]>>,
                   read, raw)
  ELSE IF Head(text) = " "
    THEN ReadNames(Tail(text), <<>>, Append(read, name), raw)
  ELSE ReadNames(Tail(text), Append(name, Head(text)), read, raw)

ReadName(text) == ReadNames(text, <<>>, <<>>, FALSE)

\* every written name of the list is the escaped name of the node's list
\* and reads back as that name alone
AreEscapesOf(written, names) ==
  /\ Len(written) = Len(names)
  /\ \A i \in 1..Len(names) :
       /\ IsEscapeOf(written[i], names[i])
       /\ ReadName(written[i]) = <<names[i]>>
       /\ (\A j \in 1..Len(names[i]) : names[i][j] \notin NinjaSpecial)
            => written[i] = names[i]

TheNode == nodes_[1].node

\* the goals the default declaration has to name
DefaultGoals ==
  IF TargetsDecide THEN g_flags.targets ELSE <<TheNode.output>>

\* the default declaration is the escaped goals, and reads back as the goals
DefaultNamesEscaped(line) ==
  /\ ReadName(line.v) = DefaultGoals
  /\ AreEscapesOf(ReadNames(line.v, <<>>, <<>>, TRUE), DefaultGoals)

\* C12: every name of the plan (build output, implicit outputs, dependency,
\* order-only and validation edges, symlink outputs, default goals) with $,
\* : or space in it is written with exactly one $ added before each such
\* character, a name without them is written as it is, and taking the
\* added $ away gives the name back.
C12_NamesEscapedAndReadBack ==
  \A i \in 1..Len(ninja_out) :
    /\ ninja_out[i].t = "build" =>
         /\ AreEscapesOf(<<ninja_out[i].target>>, <<TheNode.output>>)
         /\ AreEscapesOf(ninja_out[i].implicit_outputs, TheNode.implicit_outputs)
         /\ AreEscapesOf(ninja_out[i].deps, TheNode.deps)
         /\ AreEscapesOf(ninja_out[i].order_onlys, TheNode.order_onlys)
         /\ AreEscapesOf(ninja_out[i].validations, TheNode.validations)
         /\ (TheNode.symlink_outputs # <<>> =>
               /\ i < Len(ninja_out)
               /\ ninja_out[i + 1].t = "symlink_outputs")
    /\ ninja_out[i].t = "symlink_outputs" =>
         AreEscapesOf(ninja_out[i].v, TheNode.symlink_outputs)
    /\ ninja_out[i].t = "default" => DefaultNamesEscaped(ninja_out[i])

\* the plan of a$ with the goals "a b" and a$ named: build a$$ and
\* default a$ b a$$
C12_Witness ==
  /\ pc = "done"
  /\ TheNode.output = <<"a", "$">>
  /\ g_flags.targets = <<<<"a", " ", "b">>, <<"a", "$">>>>
  /\ ~g_flags.gen_all_targets
  /\ \E i \in 1..Len(ninja_out) :
       ninja_out[i].t = "build" /\ ninja_out[i].target = <<"a", "$", "$">>
  /\ ninja_out[Len(ninja_out)] =
       [t |-> "default", v |-> <<"a", "$", " ", "b", " ", "a", "$", "$">>]

(***************************************************************************)
(* Claims on the default-target slot (SpecLock)                            *)
(***************************************************************************)
\* the calls that are between taking mu_ and giving it back
InLock == {t \in 1..Len(nodes_) : epc[t] \in {"locked", "written"}}

AllReturned == \A t \in 1..Len(nodes_) : epc[t] = "returned"

\* a step that changes the slot is taken by the call that holds mu_, which
\* is at line 615, and puts that call's node there
WriteUnderLock ==
  default_target_' # default_target_ =>
    /\ mu_ \in 1..Len(nodes_) /\ mu_' = mu_
    /\ epc[mu_] = "locked" /\ epc'[mu_] = "written"
    /\ default_target_' = <<nodes_[mu_].node.output>>

\* C13: every write of the default-target slot is made holding mu_, so no
\* two calls of EmitBuild on flagged nodes are at the write at the same time;
\* when all calls have returned the slot holds one of the flagged nodes (and
\* nothing when none is flagged); with the calls made one after the other
\* the slot holds the last flagged node in emission order.
C13_SlotWrittenUnderMutex ==
  /\ [][WriteUnderLock]_vars
  /\ [](/\ Cardinality(InLock) <= 1
        /\ InLock = IF mu_ = 0 THEN {} ELSE {mu_}
        /\ AllReturned =>
             /\ Flagged = {} => default_target_ = <<>>
             /\ Flagged # {} =>
                  \E t \in Flagged : default_target_ = <<nodes_[t].node.output>>
             /\ (serial /\ Flagged # {}) =>
                  default_target_ =
                    <<nodes_[CHOOSE t \in Flagged :
                               \A u \in Flagged : u <= t].node.output>>)

\* two flagged nodes emitted at the same time: the second call waits at the
\* lock while the first one, which holds mu_, has written the slot
C13_Witness ==
  /\ ~serial
  /\ Cardinality(Flagged) >= 2
  /\ \E t \in Flagged, u \in Flagged :
       /\ t # u /\ mu_ = t /\ epc[t] = "written" /\ epc[u] = "stanza"
       /\ default_target_ = <<nodes_[t].node.output>>

(***************************************************************************)
(* Claims on the rule ids (SpecPopulate)                                   *)
(***************************************************************************)
\* the places of nodes_ whose node has commands
WithCommands == {i \in 1..Len(nodes_) : nodes_[i].ncmds > 0}

\* the i-th emission node as EmitNode gets it
NinjaNodeAt(i) ==
  [node |-> [PlainNode(<<nodes_[i].node>>)
               EXCEPT !.is_phony = g.kind[nodes_[i].node].is_phony],
   commands |-> IF nodes_[i].ncmds = 0 THEN <<>> ELSE CcRecipe,
   rule_id |-> nodes_[i].rule_id]

\* the rule named by the build line EmitNode writes for the i-th node
RuleEmittedFor(i) ==
  SelectSeq(EmitNode(NinjaNodeAt(i), NoFlags, <<>>, "other").lines,
            LAMBDA l : l.t = "build")[1].rule

\* C14: a rule id is given only to a node with commands: at any time of the
\* traversal the emission nodes with commands have the ids 0, 1, 2, ... in
\* the order of their first visit, all different; a node without commands
\* has -1 and is emitted against the rule phony; and rule_id_ counts only
\* the nodes with commands.
C14_RuleIdsCountCommandNodes ==
  /\ \A i \in WithCommands :
       /\ nodes_[i].rule_id = Cardinality({j \in WithCommands : j < i})
       /\ RuleEmittedFor(i) = RuleName(nodes_[i].rule_id)
  /\ \A i \in WithCommands, j \in WithCommands :
       i < j => nodes_[i].rule_id < nodes_[j].rule_id
  /\ \A i \in (1..Len(nodes_)) \ WithCommands :
       nodes_[i].rule_id = -1 /\ RuleEmittedFor(i) = PhonyRule
  /\ rule_id_ = Cardinality(WithCommands)

\* a with commands, the phony b without, out with commands, visited in that
\* order: the ids are 0, -1 and 1
C14_Witness ==
  /\ pc = "done"
  /\ Len(nodes_) = 3
  /\ nodes_[1].node = "a" /\ nodes_[1].ncmds > 0 /\ nodes_[1].rule_id = 0
  /\ nodes_[2].node = "b" /\ nodes_[2].ncmds = 0 /\ nodes_[2].rule_id = -1
  /\ nodes_[3].node = "out" /\ nodes_[3].ncmds > 0 /\ nodes_[3].rule_id = 1
  /\ rule_id_ = 2

(***************************************************************************)
(* Claims on the strip loop of TranslateCommand (SpecShell)                *)
(***************************************************************************)
\* C15: in every call of TranslateCommand that GenShellScript makes, the
\* loop that strips trailing whitespace and semicolons never reads the
\* buffer before its start and never leaves it shorter than it was when the
\* call began, also when the buffer is empty and the command translates to
\* nothing.
C15_StripStaysInFragment ==
  \A k \in 1..Len(script.iters) :
    ~script.iters[k].oob_read /\ ~script.iters[k].under

\* the recipe whose only command is the silent comment "# c": the strip
\* loop read before the start of the empty buffer
C15_Witness ==
  /\ ei = 2
  /\ Len(TheRecipe) = 1
  /\ TheRecipe[1].cmd = <<"#", " ", "c">> /\ ~TheRecipe[1].echo
  /\ Len(script.iters) = 1
  /\ script.iters[1].cmd_begin = 0 /\ ~script.iters[1].needs_subshell
  /\ script.iters[1].oob_read

=============================================================================
